---- MODULE Spec2Model ----
(***************************************************************************)
(* Gesture-driven ticker (TextTicker) and velocity controller (Controller) *)
(* of the reading-enhancement app.                                         *)
(*                                                                         *)
(* All lengths, offsets and velocities are integers counted in quarter     *)
(* pixels (Px(1) = 4), so that the half-pixel snap threshold of the        *)
(* controller and the one-pixel re-centering tolerance of the ticker are   *)
(* both exact, and so that a velocity strictly between 0 and 0.5 px/frame  *)
(* exists.  Widths are whole pixels, hence width / 2 is exact.             *)
(***************************************************************************)
EXTENDS Integers, FiniteSets, Sequences, TLC

VARIABLES
    \* ---- TextTicker ----
    mounted,            \* the mount effect of TextTicker has run
    containerWidth,     \* useWindowDimensions().width (React tier)
    contentWidth,       \* useState contentWidth (React tier)
    isPanDisabled,      \* useState isPanDisabled ("Text too short to scroll")
    scrollX,            \* shared value: ScrollOffset
    savedTranslateX,    \* shared value: the pan snapshot
    contentWidthSV,     \* shared value: content width (UI tier)
    containerWidthSV,   \* shared value: container width (UI tier)
    panActive,          \* a pan gesture on the ticker is in progress
    \* ---- Controller ----
    speed,              \* shared value: Velocity
    maxSpeed,           \* prop maxSpeed
    sliderWidth,        \* useState sliderWidth
    sliderWidthSV,      \* shared value: track width
    thumbPosition,      \* shared value: thumb position
    startX,             \* shared value: thumb snapshot of the drag
    dragActive,         \* a drag of the thumb is in progress
    \* ---- observation (history) ----
    lastOp,             \* name of the handler that ran last
    offsetBefore,       \* scrollX as that handler found it
    speedBefore,        \* speed as that handler found it
    panStartOffset,     \* scrollX at the start of the current pan gesture
    snapshotOverwritten,\* reset()/re-centering wrote savedTranslateX during the gesture
    ticksInPan,         \* frame ticks that moved scrollX during the current pan gesture (saturating)
    \* ---- Reader (word field) ----
    selectedWordIndex,  \* useState selectedWordIndex (NoWord: null)
    lastScale,          \* ref lastScale of the pinch session, in twentieths
    lastTapTs,          \* per-word timestamp of the last tap (ms), a map
    now,                \* Date.now() (ms)
    wordLayouts,        \* recorded word rectangles, a map index -> [x, width]
    centeredWordIndex,  \* the centered word (NoWord: none)
    observedOffset,     \* the offset the centered-word reaction saw last
    \* ---- App (the store behind the Reader's callbacks) ----
    appSelectedWordIndex,       \* state.selectedWordIndex
    perWordFontSizeOverrides,   \* state.perWordFontSizeOverrides, a map
    liveBaseFontSize,           \* useState liveBaseFontSize, a JavaScript value
    \* ---- observation (history) of the word field ----
    calls,              \* the callbacks the last handler fired, as <<name, argument>>
    selectedBefore,     \* selectedWordIndex as the last word-field handler found it
    pinchActive,        \* a pinch gesture is in progress
    pinchSum,           \* sum of the adjustments proposed since the pinch started
    pinchMixed,         \* the selection changed during the pinch
    pinchSteps,         \* updates of the pinch so far (saturating)
    layoutsChanged,     \* a word layout was recorded after the last recomputation
    \* ---- gestureHelpers (calls of the pure helpers) ----
    scaleArg,           \* argument of clampScale
    clampResult,        \* what clampScale returned (NoResult: not called)
    currentScaleArg,    \* argument currentScale of getSafeScaleDelta
    deltaArg,           \* argument delta of getSafeScaleDelta
    deltaResult,        \* what getSafeScaleDelta returned (NoResult: not called)
    \* ---- useDebounce ----
    inputValue,         \* the hook's argument value, as last rendered
    debouncedValue,     \* useState debouncedValue
    timer,              \* ms left on the pending setTimeout (NoTimer: none)
    stableFor,          \* ms the input has stayed unchanged (saturating at the delay)
    debouncedBefore,    \* debouncedValue as the last timer callback found it
    superseded,         \* inputs replaced while their timer was pending, since the
                        \* last callback ran (saturating)
    \* ---- TextTicker, React tier in flight ----
    layoutPending,      \* onLayout has called setContentWidth/setIsPanDisabled and the
                        \* render that commits them has not run
    \* ---- App (the reducer's state: config and brightness) ----
    baseFontSize,       \* state.config.baseFontSize, a JavaScript value
    maxScrollSpeed,     \* state.config.maxScrollSpeed, a JavaScript value
    wordSpacing,        \* state.config.wordSpacing, a JavaScript value
    brightness,         \* state.brightness, in hundredths
    \* ---- observation (history) of the font-size path ----
    proposedSum,        \* sum of the global font-size deltas proposed so far
    proposedCount       \* deltas proposed since the store was last written (saturating)

tickerVars == <<mounted, containerWidth, contentWidth, isPanDisabled, scrollX,
                savedTranslateX, contentWidthSV, containerWidthSV, panActive>>
controllerVars == <<speed, maxSpeed, sliderWidth, sliderWidthSV, thumbPosition,
                    startX, dragActive>>
historyVars == <<panStartOffset, snapshotOverwritten, ticksInPan>>
readerVars == <<selectedWordIndex, lastScale, lastTapTs, now>>
centerVars == <<wordLayouts, centeredWordIndex, observedOffset>>
storeVars == <<appSelectedWordIndex, perWordFontSizeOverrides, liveBaseFontSize>>
wordHistoryVars == <<calls, selectedBefore, pinchActive, pinchSum, pinchMixed, pinchSteps,
                     layoutsChanged>>
wordFieldVars == <<readerVars, centerVars, storeVars, wordHistoryVars>>
helperVars == <<scaleArg, clampResult, currentScaleArg, deltaArg, deltaResult>>
debounceVars == <<inputValue, debouncedValue, timer, stableFor, debouncedBefore, superseded>>
renderVars == <<layoutPending>>
configVars == <<baseFontSize, maxScrollSpeed, wordSpacing, brightness>>
fontHistoryVars == <<proposedSum, proposedCount>>
appVars == <<renderVars, configVars, fontHistoryVars>>
utilVars == <<helperVars, debounceVars, appVars>>
vars == <<tickerVars, controllerVars, historyVars, lastOp, offsetBefore, speedBefore,
          wordFieldVars, utilVars>>

----------------------------------------------------------------------------
(* Units and bounds *)

Px(n) == 4 * n
Half(x) == x \div 2

MaxPan == 2
MaxDrag == 4
MaxTickCount == 1

ContainerWidths == {Px(0), Px(2)}
ContentWidths == {Px(0), Px(1), Px(3)}
SliderWidths == {Px(0), Px(1), Px(2)}
\* Pan translations are whole half-pixels.
PanTranslations == {2 * k : k \in (-MaxPan)..MaxPan}
DragTranslations == (-MaxDrag)..MaxDrag

DEFAULT_MAX_SCROLL_SPEED == Px(3)
\* Values of config.maxScrollSpeed the controller is rendered with.
MaxSpeeds == {Px(1), DEFAULT_MAX_SCROLL_SPEED}
\* Thumb translations of the drags that drive the ticker in Spec.
CoarseDragTranslations == {-Px(1), Px(1)}

----------------------------------------------------------------------------
(* Pure helpers *)

Abs(x) == IF x < 0 THEN -x ELSE x
Min(a, b) == IF a < b THEN a ELSE b
Max(a, b) == IF a > b THEN a ELSE b

\* Mutant of clamp: the lower bound is forgotten.
clampNoLower(value, lo, hi) == Min(value, hi)

clamp(value, lo, hi) == Min(Max(value, lo), hi)

MinTranslate(cw, w) == Half(cw) - w
MaxTranslate(cw) == Half(cw)

----------------------------------------------------------------------------
(* Word field: units, constants and maps *)

\* null of selectedWordIndex and of the centered word.
NoWord == -1
\* The pinch scale 1, counted in twentieths (a step of 0.05 is 1).
ScaleOne == 20
\* Mutant of DOUBLE_TAP_THRESHOLD_MS: a window of 250 ms.
DoubleTapThresholdShort == 300 - 50
DOUBLE_TAP_THRESHOLD_MS == 300
PINCH_SENSITIVITY_WORD_SPACING == 20
PINCH_SENSITIVITY_FONT_SIZE == 10
DEFAULT_BASE_FONT_SIZE == Px(20)
\* state.config.baseFontSize, as long as no SET_BASE_FONT_SIZE is dispatched.
ConfigBaseFontSize == DEFAULT_BASE_FONT_SIZE
DEFAULT_WORD_SPACING == Px(8)

MaxClock == 700
MaxPinch == 2
MaxOverride == 8
MaxPinchSteps == 2

\* Indices of the words of the text.
Words == {0, 1, 2}
\* The words that are tapped.
TappedWords == {0, 1}
\* Milliseconds that pass between two events.
TapGaps == {100, 250, 300}
\* Cumulative scales a pinch gesture reports.
PinchScales == (ScaleOne - MaxPinch)..(ScaleOne + MaxPinch)

\* JavaScript objects used as maps from word index to a value.
EmptyMap == [k \in {} |-> 0]
MapGet(m, k, default) == IF k \in DOMAIN m THEN m[k] ELSE default
MapPut(m, k, v) == [x \in (DOMAIN m) \cup {k} |-> IF x = k THEN v ELSE m[x]]
MapRemove(m, k) == [x \in (DOMAIN m) \ {k} |-> m[x]]

----------------------------------------------------------------------------
(* gestureHelpers: JavaScript values and the scale helpers *)

\* A JavaScript value passed where a number is expected.  Finite numbers are
\* counted in twentieths, like the pinch scale.
Num(n) == [kind |-> "number", n |-> n]
NaN == [kind |-> "NaN", n |-> 0]
Undefined == [kind |-> "undefined", n |-> 0]
Null == [kind |-> "null", n |-> 0]
PosInfinity == [kind |-> "Infinity", n |-> 0]
NegInfinity == [kind |-> "-Infinity", n |-> 0]
\* No call has returned yet.
NoResult == [kind |-> "none", n |-> 0]

\* ToNumber: undefined is NaN, null is 0.
ToNumber(v) ==
    IF v = Undefined THEN NaN
    ELSE IF v = Null THEN Num(0)
    ELSE v

\* The global isNaN, which converts its argument first.
isNaN(v) == ToNumber(v) = NaN

\* a <= b for two numbers that are not NaN.
JsLessEq(a, b) ==
    \/ a = NegInfinity
    \/ b = PosInfinity
    \/ a.kind = "number" /\ b.kind = "number" /\ a.n <= b.n

MathMin(a, b) ==
    LET x == ToNumber(a)
        y == ToNumber(b)
    IN IF x = NaN \/ y = NaN THEN NaN ELSE IF JsLessEq(x, y) THEN x ELSE y

MathMax(a, b) ==
    LET x == ToNumber(a)
        y == ToNumber(b)
    IN IF x = NaN \/ y = NaN THEN NaN ELSE IF JsLessEq(x, y) THEN y ELSE x

\* a + b
JsAdd(a, b) ==
    LET x == ToNumber(a)
        y == ToNumber(b)
    IN IF x = NaN \/ y = NaN THEN NaN
       ELSE IF x.kind = "number" /\ y.kind = "number" THEN Num(x.n + y.n)
       ELSE IF x.kind = "number" THEN y
       ELSE IF y.kind = "number" THEN x
       ELSE IF x = y THEN x
       ELSE NaN

\* a - b
JsSub(a, b) ==
    LET y == ToNumber(b)
        negated == IF y = PosInfinity THEN NegInfinity
                   ELSE IF y = NegInfinity THEN PosInfinity
                   ELSE IF y = NaN THEN NaN
                   ELSE Num(-y.n)
    IN JsAdd(a, negated)

\* 0.1 and 5, in twentieths.
SCALE_MIN == 2
SCALE_MAX == 100

\* Mutant of clampScale: the test for null is missing, and null is clamped as
\* the number 0.
clampScaleWithoutNullCheck(scale) ==
    IF isNaN(scale) \/ scale = Undefined
    THEN Num(ScaleOne)
    ELSE MathMax(Num(SCALE_MIN), MathMin(Num(SCALE_MAX), scale))

clampScale(scale) ==
    IF isNaN(scale) \/ scale = Undefined \/ scale = Null
    THEN Num(ScaleOne)
    ELSE MathMax(Num(SCALE_MIN), MathMin(Num(SCALE_MAX), scale))

isScaleWithinBounds(scale) ==
    LET x == ToNumber(scale)
    IN x # NaN /\ JsLessEq(Num(SCALE_MIN), x) /\ JsLessEq(x, Num(SCALE_MAX))

\* Mutant of getSafeScaleDelta: the delta is clamped, not the new scale.
getSafeScaleDeltaClampsDelta(currentScale, delta) ==
    clampScale(delta)

getSafeScaleDelta(currentScale, delta) ==
    LET newScale == JsAdd(currentScale, delta)
        clampedScale == clampScale(newScale)
    IN JsSub(clampedScale, currentScale)

\* Finite arguments of clampScale lie between -MaxScaleInput and MaxScaleInput,
\* next to two far away; deltas lie between -MaxDelta and MaxDelta.
MaxScaleInput == 140
MaxDelta == 110
FarScale == 100 * ScaleOne
InvalidScales == {NaN, Undefined, Null}
ScaleInputs ==
    {Num(n) : n \in (-MaxScaleInput)..MaxScaleInput} \cup {Num(-FarScale), Num(FarScale)}
        \cup InvalidScales \cup {PosInfinity, NegInfinity}
CurrentScales == {Num(n) : n \in SCALE_MIN..SCALE_MAX}
Deltas == {Num(n) : n \in (-MaxDelta)..MaxDelta} \cup {NaN, PosInfinity, NegInfinity}

\* A call of clampScale with the argument at hand.
CallClampScale ==
    /\ clampResult = NoResult
    /\ clampResult' = clampScale(scaleArg)
    /\ lastOp' = "clampScale"
    /\ UNCHANGED <<scaleArg, currentScaleArg, deltaArg, deltaResult, debounceVars, appVars>>
    /\ UNCHANGED <<tickerVars, controllerVars, historyVars, offsetBefore, speedBefore,
                   wordFieldVars>>

\* A call of getSafeScaleDelta with the arguments at hand.
CallGetSafeScaleDelta ==
    /\ deltaResult = NoResult
    /\ deltaResult' = getSafeScaleDelta(currentScaleArg, deltaArg)
    /\ lastOp' = "getSafeScaleDelta"
    /\ UNCHANGED <<scaleArg, clampResult, currentScaleArg, deltaArg, debounceVars, appVars>>
    /\ UNCHANGED <<tickerVars, controllerVars, historyVars, offsetBefore, speedBefore,
                   wordFieldVars>>

\* No helper has been called.
HelperInit ==
    /\ scaleArg = Num(ScaleOne)
    /\ clampResult = NoResult
    /\ currentScaleArg = Num(ScaleOne)
    /\ deltaArg = Num(0)
    /\ deltaResult = NoResult

----------------------------------------------------------------------------
(* useDebounce *)

DEBOUNCE_DELAY_MS == 100
NoTimer == -1
\* Values of the debounced input.
DebounceValues == {0, 1, 2}
MaxSuperseded == 2
\* Milliseconds that pass between two events of the hook.
DebounceGaps == {10, 40, 100}

\* Mutant of SetValueTimer: the pending timer is left to run on.
SetValueTimerKept == IF timer = NoTimer THEN DEBOUNCE_DELAY_MS ELSE timer

\* The effect of a render with a new value: the cleanup clears the pending
\* timer and a new one is set for the whole delay.
SetValueTimer == DEBOUNCE_DELAY_MS

\* A render with another value; the effect runs.
SetValue(v) ==
    /\ v # inputValue
    /\ inputValue' = v
    /\ timer' = SetValueTimer
    /\ stableFor' = 0
    /\ superseded' = IF timer = NoTimer THEN 0 ELSE Min(superseded + 1, MaxSuperseded)
    /\ lastOp' = "setValue"
    /\ UNCHANGED <<debouncedValue, debouncedBefore, helperVars, appVars>>
    /\ UNCHANGED <<tickerVars, controllerVars, historyVars, offsetBefore, speedBefore,
                   wordFieldVars>>

\* Time passes, up to the moment the pending timer is due.
DebounceElapse(ms) ==
    /\ timer # NoTimer
    /\ timer > 0
    /\ timer' = Max(0, timer - ms)
    /\ stableFor' = Min(stableFor + Min(ms, timer), DEBOUNCE_DELAY_MS)
    /\ lastOp' = "debounceElapse"
    /\ UNCHANGED <<inputValue, debouncedValue, debouncedBefore, superseded, helperVars,
                   appVars>>
    /\ UNCHANGED <<tickerVars, controllerVars, historyVars, offsetBefore, speedBefore,
                   wordFieldVars>>

\* The callback of setTimeout: setDebouncedValue(value).
TimerFire ==
    /\ timer = 0
    /\ debouncedValue' = inputValue
    /\ timer' = NoTimer
    /\ debouncedBefore' = debouncedValue
    /\ lastOp' = "timerFire"
    /\ UNCHANGED <<inputValue, stableFor, superseded, helperVars, appVars>>
    /\ UNCHANGED <<tickerVars, controllerVars, historyVars, offsetBefore, speedBefore,
                   wordFieldVars>>

\* The hook after its first render: the state holds the value, and the effect
\* has set a timer for it.
DebounceInit ==
    /\ inputValue = 0
    /\ debouncedValue = inputValue
    /\ timer = DEBOUNCE_DELAY_MS
    /\ stableFor = 0
    /\ debouncedBefore = debouncedValue
    /\ superseded = 0

\* initialState of the reducer (config and brightness), and nothing in flight.
AppInit ==
    /\ layoutPending = FALSE
    /\ baseFontSize = Num(DEFAULT_BASE_FONT_SIZE)
    /\ maxScrollSpeed = Num(DEFAULT_MAX_SCROLL_SPEED)
    /\ wordSpacing = Num(DEFAULT_WORD_SPACING)
    /\ brightness = Num(0)
    /\ proposedSum = 0
    /\ proposedCount = 0

UtilInit == HelperInit /\ DebounceInit /\ AppInit

\* The word field and the store after construction.
WordFieldInit ==
    /\ selectedWordIndex = NoWord
    /\ lastScale = ScaleOne
    /\ lastTapTs = EmptyMap
    /\ now = 0
    /\ wordLayouts = EmptyMap
    /\ centeredWordIndex = NoWord
    /\ observedOffset = 0
    /\ appSelectedWordIndex = NoWord
    /\ perWordFontSizeOverrides = EmptyMap
    /\ liveBaseFontSize = Num(ConfigBaseFontSize)
    /\ calls = {}
    /\ selectedBefore = NoWord
    /\ pinchActive = FALSE
    /\ pinchSum = 0
    /\ pinchMixed = FALSE
    /\ pinchSteps = 0
    /\ layoutsChanged = FALSE

----------------------------------------------------------------------------
Init ==
    /\ WordFieldInit
    /\ UtilInit
    /\ mounted = FALSE
    /\ containerWidth \in ContainerWidths
    /\ contentWidth = 0
    /\ isPanDisabled = FALSE
    /\ scrollX = 0
    /\ savedTranslateX = 0
    /\ contentWidthSV = 0
    /\ containerWidthSV = 0
    /\ panActive = FALSE
    /\ speed = 0
    /\ maxSpeed \in MaxSpeeds
    /\ sliderWidth = 0
    /\ sliderWidthSV = 0
    /\ thumbPosition = 0
    /\ startX = 0
    /\ dragActive = FALSE
    /\ lastOp = "init"
    /\ offsetBefore = 0
    /\ speedBefore = 0
    /\ panStartOffset = 0
    /\ snapshotOverwritten = FALSE
    /\ ticksInPan = 0

----------------------------------------------------------------------------
(* TextTicker *)

\* Mutant of ShouldRecenter: an offset exactly one pixel from the previous
\* center is re-centered too.
ShouldRecenterInclusive(offset, prevCenter) ==
    offset = 0 \/ Abs(offset - prevCenter) <= Px(1)

\* The re-centering test of the container-width effect.
ShouldRecenter(offset, prevCenter) ==
    offset = 0 \/ Abs(offset - prevCenter) < Px(1)

\* Body of the container-width effect for the width w now rendered.
ContainerWidthEffect(w) ==
    LET prevCenter == Half(containerWidthSV)
        newCenter == Half(w)
    IN /\ containerWidthSV' = w
       /\ IF ShouldRecenter(scrollX, prevCenter)
          THEN /\ scrollX' = newCenter
               /\ savedTranslateX' = newCenter
               /\ snapshotOverwritten' = (snapshotOverwritten \/ panActive)
          ELSE UNCHANGED <<scrollX, savedTranslateX, snapshotOverwritten>>

\* First run of the effect, after the first render.
Mount ==
    /\ ~mounted
    /\ mounted' = TRUE
    /\ ContainerWidthEffect(containerWidth)
    /\ lastOp' = "mount"
    /\ offsetBefore' = scrollX
    /\ speedBefore' = speed
    /\ UNCHANGED utilVars
    /\ UNCHANGED wordFieldVars
    /\ UNCHANGED <<containerWidth, contentWidth, isPanDisabled, contentWidthSV, panActive>>
    /\ UNCHANGED <<controllerVars, panStartOffset, ticksInPan>>

\* The window width changes: re-render, then the effect runs again.
OnContainerResize(w) ==
    /\ mounted
    /\ w # containerWidth
    /\ containerWidth' = w
    /\ ContainerWidthEffect(w)
    /\ lastOp' = "resize"
    /\ offsetBefore' = scrollX
    /\ speedBefore' = speed
    /\ UNCHANGED utilVars
    /\ UNCHANGED wordFieldVars
    /\ UNCHANGED <<mounted, contentWidth, isPanDisabled, contentWidthSV, panActive>>
    /\ UNCHANGED <<controllerVars, panStartOffset, ticksInPan>>

\* onLayout of the word strip.
OnContentLayout(w) ==
    /\ mounted
    /\ contentWidth' = w
    /\ contentWidthSV' = w
    /\ isPanDisabled' = (w <= containerWidth)
    /\ lastOp' = "layout"
    /\ offsetBefore' = scrollX
    /\ speedBefore' = speed
    /\ UNCHANGED utilVars
    /\ UNCHANGED wordFieldVars
    /\ UNCHANGED <<mounted, containerWidth, scrollX, savedTranslateX, containerWidthSV, panActive>>
    /\ UNCHANGED <<controllerVars, historyVars>>

\* What a render commits of the state updates onLayout has queued.  The
\* handler that queued them closed over the container width of the render
\* before this one.
CommitLayoutWrites ==
    /\ IF layoutPending
       THEN /\ contentWidth' = contentWidthSV
            /\ isPanDisabled' = (contentWidthSV <= containerWidth)
       ELSE UNCHANGED <<contentWidth, isPanDisabled>>
    /\ layoutPending' = FALSE

\* The window width changes and the component re-renders with it; the
\* container-width effect of this render has not run yet.
RenderWidth(w) ==
    /\ mounted
    /\ containerWidth = containerWidthSV
    /\ w # containerWidth
    /\ containerWidth' = w
    /\ CommitLayoutWrites
    /\ lastOp' = "render"
    /\ offsetBefore' = scrollX
    /\ speedBefore' = speed
    /\ UNCHANGED <<helperVars, debounceVars, configVars, fontHistoryVars>>
    /\ UNCHANGED wordFieldVars
    /\ UNCHANGED <<mounted, scrollX, savedTranslateX, contentWidthSV, containerWidthSV,
                   panActive>>
    /\ UNCHANGED <<controllerVars, historyVars>>

\* The container-width effect of the last render runs.
RunWidthEffect ==
    /\ mounted
    /\ containerWidth # containerWidthSV
    /\ ContainerWidthEffect(containerWidth)
    /\ lastOp' = "widthEffect"
    /\ offsetBefore' = scrollX
    /\ speedBefore' = speed
    /\ UNCHANGED utilVars
    /\ UNCHANGED wordFieldVars
    /\ UNCHANGED <<mounted, containerWidth, contentWidth, isPanDisabled, contentWidthSV,
                   panActive>>
    /\ UNCHANGED <<controllerVars, panStartOffset, ticksInPan>>

\* onLayout of the word strip runs: the shared value is written at once, the
\* two state updates wait for the next render.
LayoutEvent(w) ==
    /\ mounted
    /\ contentWidthSV' = w
    /\ layoutPending' = TRUE
    /\ lastOp' = "layoutEvent"
    /\ offsetBefore' = scrollX
    /\ speedBefore' = speed
    /\ UNCHANGED <<helperVars, debounceVars, configVars, fontHistoryVars>>
    /\ UNCHANGED wordFieldVars
    /\ UNCHANGED <<mounted, containerWidth, contentWidth, isPanDisabled, scrollX,
                   savedTranslateX, containerWidthSV, panActive>>
    /\ UNCHANGED <<controllerVars, historyVars>>

\* The render that commits the state updates of onLayout.
CommitLayout ==
    /\ mounted
    /\ layoutPending
    /\ CommitLayoutWrites
    /\ lastOp' = "commitLayout"
    /\ offsetBefore' = scrollX
    /\ speedBefore' = speed
    /\ UNCHANGED <<helperVars, debounceVars, configVars, fontHistoryVars>>
    /\ UNCHANGED wordFieldVars
    /\ UNCHANGED <<mounted, containerWidth, scrollX, savedTranslateX, contentWidthSV,
                   containerWidthSV, panActive>>
    /\ UNCHANGED <<controllerVars, historyVars>>

\* Mutant of Reset: the offset goes back to 0, not to the center.
ResetToOrigin ==
    /\ mounted
    /\ scrollX' = 0
    /\ savedTranslateX' = 0
    /\ snapshotOverwritten' = (snapshotOverwritten \/ panActive)
    /\ lastOp' = "reset"
    /\ offsetBefore' = scrollX
    /\ speedBefore' = speed
    /\ UNCHANGED utilVars
    /\ UNCHANGED wordFieldVars
    /\ UNCHANGED <<mounted, containerWidth, contentWidth, isPanDisabled, contentWidthSV,
                   containerWidthSV, panActive>>
    /\ UNCHANGED <<controllerVars, panStartOffset, ticksInPan>>

\* The imperative handle reset().
Reset ==
    /\ mounted
    /\ scrollX' = Half(containerWidthSV)
    /\ savedTranslateX' = Half(containerWidthSV)
    /\ snapshotOverwritten' = (snapshotOverwritten \/ panActive)
    /\ lastOp' = "reset"
    /\ offsetBefore' = scrollX
    /\ speedBefore' = speed
    /\ UNCHANGED utilVars
    /\ UNCHANGED wordFieldVars
    /\ UNCHANGED <<mounted, containerWidth, contentWidth, isPanDisabled, contentWidthSV,
                   containerWidthSV, panActive>>
    /\ UNCHANGED <<controllerVars, panStartOffset, ticksInPan>>

\* Mutant of TickOffset: the new offset is written unclamped.
TickOffsetNoClamp(offset, velocity, cw, w) ==
    IF velocity = 0
    THEN offset
    ELSE IF MinTranslate(cw, w) < MaxTranslate(cw)
         THEN offset - velocity
         ELSE offset

\* Mutant of TickOffset: the two bounds are passed to clamp in the wrong order.
TickOffsetSwappedBounds(offset, velocity, cw, w) ==
    IF velocity = 0
    THEN offset
    ELSE IF MinTranslate(cw, w) < MaxTranslate(cw)
         THEN clamp(offset - velocity, MaxTranslate(cw), MinTranslate(cw, w))
         ELSE offset

\* The offset a frame leaves behind, from the offset it found.
TickOffset(offset, velocity, cw, w) ==
    IF velocity = 0
    THEN offset
    ELSE IF MinTranslate(cw, w) < MaxTranslate(cw)
         THEN clamp(offset - velocity, MinTranslate(cw, w), MaxTranslate(cw))
         ELSE offset

\* The container width and the content width the frame callback reads: the
\* shared values.
TickWidths == <<containerWidthSV, contentWidthSV>>

\* Mutant of PanWidths: the pan update reads the widths of the last render
\* (React state), as the earlier TextTicker did.
PanWidthsFromState == <<containerWidth, contentWidth>>

\* The container width and the content width the pan update reads: the
\* shared values.
PanWidths == <<containerWidthSV, contentWidthSV>>

\* [minTranslate, maxTranslate] as the frame callback computes it.
TickRange == <<MinTranslate(TickWidths[1], TickWidths[2]), MaxTranslate(TickWidths[1])>>

\* [minTranslate, maxTranslate] as the pan update computes it.
PanRange == <<MinTranslate(PanWidths[1], PanWidths[2]), MaxTranslate(PanWidths[1])>>

\* Mutant of FrameTick: a frame that finds the offset at its lower bound
\* stops the auto-scroll.
FrameTickStopsAtEnd ==
    /\ mounted
    /\ scrollX' = TickOffset(scrollX, speed, containerWidthSV, contentWidthSV)
    /\ speed' = IF scrollX' = MinTranslate(containerWidthSV, contentWidthSV) THEN 0 ELSE speed
    /\ ticksInPan' = IF panActive /\ scrollX' # scrollX
                     THEN Min(ticksInPan + 1, MaxTickCount)
                     ELSE ticksInPan
    /\ lastOp' = "tick"
    /\ offsetBefore' = scrollX
    /\ speedBefore' = speed
    /\ UNCHANGED utilVars
    /\ UNCHANGED wordFieldVars
    /\ UNCHANGED <<mounted, containerWidth, contentWidth, isPanDisabled, savedTranslateX,
                   contentWidthSV, containerWidthSV, panActive>>
    /\ UNCHANGED <<maxSpeed, sliderWidth, sliderWidthSV, thumbPosition, startX, dragActive>>
    /\ UNCHANGED <<panStartOffset, snapshotOverwritten>>

\* useFrameCallback: runs on every frame.
FrameTick ==
    /\ mounted
    /\ scrollX' = TickOffset(scrollX, speed, TickWidths[1], TickWidths[2])
    /\ ticksInPan' = IF panActive /\ scrollX' # scrollX
                     THEN Min(ticksInPan + 1, MaxTickCount)
                     ELSE ticksInPan
    /\ lastOp' = "tick"
    /\ offsetBefore' = scrollX
    /\ speedBefore' = speed
    /\ UNCHANGED utilVars
    /\ UNCHANGED wordFieldVars
    /\ UNCHANGED <<mounted, containerWidth, contentWidth, isPanDisabled, savedTranslateX,
                   contentWidthSV, containerWidthSV, panActive>>
    /\ UNCHANGED <<controllerVars, panStartOffset, snapshotOverwritten>>

\* panGesture.onStart
PanStart ==
    /\ mounted
    /\ ~panActive
    /\ panActive' = TRUE
    /\ savedTranslateX' = scrollX
    /\ panStartOffset' = scrollX
    /\ snapshotOverwritten' = FALSE
    /\ ticksInPan' = 0
    /\ lastOp' = "panStart"
    /\ offsetBefore' = scrollX
    /\ speedBefore' = speed
    /\ UNCHANGED utilVars
    /\ UNCHANGED wordFieldVars
    /\ UNCHANGED <<mounted, containerWidth, contentWidth, isPanDisabled, scrollX,
                   contentWidthSV, containerWidthSV>>
    /\ UNCHANGED controllerVars

\* Mutant of PanOffset: the "content fits" guard is missing.
PanOffsetUnguarded(offset, saved, translationX, cw, w) ==
    clamp(saved + translationX, MinTranslate(cw, w), MaxTranslate(cw))

\* Mutant of PanOffset: the new offset is written unclamped.
PanOffsetNoClamp(offset, saved, translationX, cw, w) ==
    IF w <= cw
    THEN offset
    ELSE saved + translationX

\* Mutant of PanOffset: the translation is added to the live offset, not to the snapshot.
PanOffsetFromCurrent(offset, saved, translationX, cw, w) ==
    IF w <= cw
    THEN offset
    ELSE clamp(offset + translationX, MinTranslate(cw, w), MaxTranslate(cw))

\* The offset a pan update leaves behind.
PanOffset(offset, saved, translationX, cw, w) ==
    IF w <= cw
    THEN offset
    ELSE clamp(saved + translationX, MinTranslate(cw, w), MaxTranslate(cw))

\* panGesture.onUpdate
PanUpdate(translationX) ==
    /\ panActive
    /\ scrollX' = PanOffset(scrollX, savedTranslateX, translationX,
                            PanWidths[1], PanWidths[2])
    /\ lastOp' = "panUpdate"
    /\ offsetBefore' = scrollX
    /\ speedBefore' = speed
    /\ UNCHANGED utilVars
    /\ UNCHANGED wordFieldVars
    /\ UNCHANGED <<mounted, containerWidth, contentWidth, isPanDisabled, savedTranslateX,
                   contentWidthSV, containerWidthSV, panActive>>
    /\ UNCHANGED <<controllerVars, historyVars>>

\* The finger is lifted: the gesture is over (TextTicker has no onEnd handler).
PanEnd ==
    /\ panActive
    /\ panActive' = FALSE
    /\ panStartOffset' = 0
    /\ snapshotOverwritten' = FALSE
    /\ ticksInPan' = 0
    /\ lastOp' = "panEnd"
    /\ offsetBefore' = scrollX
    /\ speedBefore' = speed
    /\ UNCHANGED utilVars
    /\ UNCHANGED wordFieldVars
    /\ UNCHANGED <<mounted, containerWidth, contentWidth, isPanDisabled, scrollX,
                   savedTranslateX, contentWidthSV, containerWidthSV>>
    /\ UNCHANGED controllerVars

----------------------------------------------------------------------------
(* Controller *)

SnapThreshold == Half(Px(1))

\* Mutant of HandleSliderLayout: the velocity is kept and the thumb re-derived
\* from it.
HandleSliderLayoutKeepsSpeed(w) ==
    /\ IF Abs(w - sliderWidthSV) < Px(1)
       THEN UNCHANGED <<sliderWidth, sliderWidthSV, thumbPosition, speed>>
       ELSE /\ sliderWidth' = w
            /\ sliderWidthSV' = w
            /\ thumbPosition' = Half(w) + (speed * Half(w)) \div maxSpeed
            /\ speed' = speed
    /\ lastOp' = "sliderLayout"
    /\ offsetBefore' = scrollX
    /\ speedBefore' = speed
    /\ UNCHANGED utilVars
    /\ UNCHANGED wordFieldVars
    /\ UNCHANGED <<maxSpeed, startX, dragActive>>
    /\ UNCHANGED <<tickerVars, historyVars>>

\* handleSliderLayout: the track is laid out with width w.
HandleSliderLayout(w) ==
    /\ IF Abs(w - sliderWidthSV) < Px(1)
       THEN UNCHANGED <<sliderWidth, sliderWidthSV, thumbPosition, speed>>
       ELSE /\ sliderWidth' = w
            /\ sliderWidthSV' = w
            /\ thumbPosition' = Half(w)
            /\ speed' = 0
    /\ lastOp' = "sliderLayout"
    /\ offsetBefore' = scrollX
    /\ speedBefore' = speed
    /\ UNCHANGED utilVars
    /\ UNCHANGED wordFieldVars
    /\ UNCHANGED <<maxSpeed, startX, dragActive>>
    /\ UNCHANGED <<tickerVars, historyVars>>

\* Mutant of ResetSpeedWrites: the thumb is centered, the velocity is kept.
ResetSpeedWritesThumbOnly ==
    /\ speed' = speed
    /\ thumbPosition' = Half(sliderWidthSV)

\* What resetSpeed() writes.
ResetSpeedWrites ==
    /\ speed' = 0
    /\ thumbPosition' = Half(sliderWidthSV)

\* The imperative handle resetSpeed(), called on its own.
ResetSpeed ==
    /\ ResetSpeedWrites
    /\ lastOp' = "resetSpeed"
    /\ offsetBefore' = scrollX
    /\ speedBefore' = speed
    /\ UNCHANGED utilVars
    /\ UNCHANGED wordFieldVars
    /\ UNCHANGED <<maxSpeed, sliderWidth, sliderWidthSV, startX, dragActive>>
    /\ UNCHANGED <<tickerVars, historyVars>>

\* panGesture.onStart of the thumb
DragStart ==
    /\ ~dragActive
    /\ dragActive' = TRUE
    /\ startX' = thumbPosition
    /\ lastOp' = "dragStart"
    /\ offsetBefore' = scrollX
    /\ speedBefore' = speed
    /\ UNCHANGED utilVars
    /\ UNCHANGED wordFieldVars
    /\ UNCHANGED <<speed, maxSpeed, sliderWidth, sliderWidthSV, thumbPosition>>
    /\ UNCHANGED <<tickerVars, historyVars>>

\* The thumb position of a drag update.
DragPosition(start, translationX, sw) == clamp(start + translationX, 0, sw)

\* The velocity of a thumb position: normalized * maxSpeed.
DragSpeed(newPos, sw, ms) == ((newPos - Half(sw)) * ms) \div Half(sw)

\* panGesture.onUpdate of the thumb
DragUpdate(translationX) ==
    /\ dragActive
    /\ IF sliderWidthSV = 0
       THEN UNCHANGED <<thumbPosition, speed>>
       ELSE LET newPos == DragPosition(startX, translationX, sliderWidthSV)
            IN /\ thumbPosition' = newPos
               /\ speed' = DragSpeed(newPos, sliderWidthSV, maxSpeed)
    /\ lastOp' = "dragUpdate"
    /\ offsetBefore' = scrollX
    /\ speedBefore' = speed
    /\ UNCHANGED utilVars
    /\ UNCHANGED wordFieldVars
    /\ UNCHANGED <<maxSpeed, sliderWidth, sliderWidthSV, startX, dragActive>>
    /\ UNCHANGED <<tickerVars, historyVars>>

\* Mutant of ShouldSnap: the threshold itself snaps too.
ShouldSnapInclusive(velocity) == Abs(velocity) <= SnapThreshold

\* Whether the release snaps the velocity to zero.
ShouldSnap(velocity) == Abs(velocity) < SnapThreshold

\* panGesture.onEnd of the thumb
DragEnd ==
    /\ dragActive
    /\ dragActive' = FALSE
    /\ IF ShouldSnap(speed)
       THEN /\ speed' = 0
            /\ thumbPosition' = Half(sliderWidthSV)
       ELSE UNCHANGED <<speed, thumbPosition>>
    /\ lastOp' = "dragEnd"
    /\ offsetBefore' = scrollX
    /\ speedBefore' = speed
    /\ UNCHANGED utilVars
    /\ UNCHANGED wordFieldVars
    /\ UNCHANGED <<maxSpeed, sliderWidth, sliderWidthSV, startX>>
    /\ UNCHANGED <<tickerVars, historyVars>>

\* Mutant of DoubleTap: the velocity is zeroed, the thumb stays where it is.
DoubleTapLeavesThumb ==
    /\ speed' = 0
    /\ lastOp' = "doubleTap"
    /\ offsetBefore' = scrollX
    /\ speedBefore' = speed
    /\ UNCHANGED utilVars
    /\ UNCHANGED wordFieldVars
    /\ UNCHANGED <<maxSpeed, sliderWidth, sliderWidthSV, thumbPosition, startX, dragActive>>
    /\ UNCHANGED <<tickerVars, historyVars>>

\* doubleTapGesture.onEnd
DoubleTap ==
    /\ speed' = 0
    /\ thumbPosition' = Half(sliderWidthSV)
    /\ lastOp' = "doubleTap"
    /\ offsetBefore' = scrollX
    /\ speedBefore' = speed
    /\ UNCHANGED utilVars
    /\ UNCHANGED wordFieldVars
    /\ UNCHANGED <<maxSpeed, sliderWidth, sliderWidthSV, startX, dragActive>>
    /\ UNCHANGED <<tickerVars, historyVars>>

\* Mutant of HandleReset: the button writes the ticker's offset itself.
HandleResetMovesTicker ==
    /\ ResetSpeedWrites
    /\ scrollX' = Half(containerWidthSV)
    /\ savedTranslateX' = Half(containerWidthSV)
    /\ calls' = {<<"onReset", NoWord>>}
    /\ selectedBefore' = selectedWordIndex
    /\ lastOp' = "handleReset"
    /\ offsetBefore' = scrollX
    /\ speedBefore' = speed
    /\ UNCHANGED utilVars
    /\ UNCHANGED <<readerVars, centerVars, storeVars, pinchActive, pinchSum, pinchMixed,
                   pinchSteps, layoutsChanged>>
    /\ UNCHANGED <<maxSpeed, sliderWidth, sliderWidthSV, startX, dragActive>>
    /\ UNCHANGED <<mounted, containerWidth, contentWidth, isPanDisabled, contentWidthSV,
                   containerWidthSV, panActive, historyVars>>

\* handleReset: the press of the reset button.  It stops the auto-scroll,
\* centers the thumb and reports to the parent through onReset.
HandleReset ==
    /\ ResetSpeedWrites
    /\ calls' = {<<"onReset", NoWord>>}
    /\ selectedBefore' = selectedWordIndex
    /\ lastOp' = "handleReset"
    /\ offsetBefore' = scrollX
    /\ speedBefore' = speed
    /\ UNCHANGED utilVars
    /\ UNCHANGED <<readerVars, centerVars, storeVars, pinchActive, pinchSum, pinchMixed,
                   pinchSteps, layoutsChanged>>
    /\ UNCHANGED <<maxSpeed, sliderWidth, sliderWidthSV, startX, dragActive>>
    /\ UNCHANGED <<tickerVars, historyVars>>

\* The parent renders the controller with another maxSpeed.
SetMaxSpeed(m) ==
    /\ m # maxSpeed
    /\ maxSpeed' = m
    /\ lastOp' = "setMaxSpeed"
    /\ offsetBefore' = scrollX
    /\ speedBefore' = speed
    /\ UNCHANGED utilVars
    /\ UNCHANGED wordFieldVars
    /\ UNCHANGED <<speed, sliderWidth, sliderWidthSV, thumbPosition, startX, dragActive>>
    /\ UNCHANGED <<tickerVars, historyVars>>

----------------------------------------------------------------------------
(* App: the handlers behind the Reader's callbacks, and the reducer *)

\* Mutant of AdjustWordFontSize: the new map holds the adjusted entry alone.
AdjustWordFontSizeAlone(overrides, index, delta) ==
    MapPut(EmptyMap, index, Max(0, MapGet(overrides, index, 0) + delta))

\* Mutant of AdjustWordFontSize: the sum is stored as it is.
AdjustWordFontSizeUnfloored(overrides, index, delta) ==
    MapPut(overrides, index, MapGet(overrides, index, 0) + delta)

\* appReducer, ADJUST_WORD_FONT_SIZE
AdjustWordFontSize(overrides, index, delta) ==
    MapPut(overrides, index, Max(0, MapGet(overrides, index, 0) + delta))

\* Mutant of ResetWordFontSize: the override is set to 0 instead of removed.
ResetWordFontSizeWritesZero(overrides, index) == MapPut(overrides, index, 0)

\* appReducer, RESET_WORD_FONT_SIZE
ResetWordFontSize(overrides, index) == MapRemove(overrides, index)

\* The font-size override a word is rendered with.
WordOverride(index) == MapGet(perWordFontSizeOverrides, index, 0)

MIN_BASE_FONT_SIZE == Px(10)

\* appReducer, SET_BASE_FONT_SIZE: the new config.baseFontSize.
SetBaseFontSize(payload) == MathMax(Num(MIN_BASE_FONT_SIZE), payload)

\* appReducer, SET_MAX_SCROLL_SPEED: the new config.maxScrollSpeed.
ScrollSpeedFloor == Px(1)
ScrollSpeedCeiling == Px(15)
SetMaxScrollSpeed(payload) ==
    MathMax(Num(ScrollSpeedFloor), MathMin(Num(ScrollSpeedCeiling), payload))

\* appReducer, SET_WORD_SPACING: the new config.wordSpacing.
SetWordSpacing(payload) == MathMax(Num(0), payload)

\* A key the saved object does not have.
Absent == [kind |-> "absent", n |-> 0]

\* {...current, ...saved} for one key.
Spread(current, saved) == IF saved = Absent THEN current ELSE saved

\* Payloads of the SET_ actions: numbers below, inside and above the ranges,
\* NaN and the infinities.
SetPayloads ==
    {Num(n) : n \in {-Px(1), 0, Px(5), Px(10), Px(12), Px(15), Px(20)}}
        \cup {NaN, PosInfinity, NegInfinity}

\* What a saved object may hold under a key: nothing, null, or a number.
SavedValues == {Absent, Null, Num(Px(5)), Num(Px(12)), Num(Px(30))}

\* Saved objects: a config with some of its keys, and a brightness.
SavedStates ==
    [baseFontSize : SavedValues, maxScrollSpeed : SavedValues,
     wordSpacing : {Absent, Num(Px(8))}, brightness : {Absent, Num(0)}]

\* What every dispatch of a config action leaves alone.
ConfigDispatchFrame ==
    /\ offsetBefore' = scrollX
    /\ speedBefore' = speed
    /\ UNCHANGED <<helperVars, debounceVars, renderVars, fontHistoryVars>>
    /\ UNCHANGED wordFieldVars
    /\ UNCHANGED <<tickerVars, controllerVars, historyVars>>

\* dispatch({type: 'SET_BASE_FONT_SIZE', payload})
DispatchSetBaseFontSize(payload) ==
    /\ baseFontSize' = SetBaseFontSize(payload)
    /\ lastOp' = "SET_BASE_FONT_SIZE"
    /\ UNCHANGED <<maxScrollSpeed, wordSpacing, brightness>>
    /\ ConfigDispatchFrame

\* dispatch({type: 'SET_MAX_SCROLL_SPEED', payload})
DispatchSetMaxScrollSpeed(payload) ==
    /\ maxScrollSpeed' = SetMaxScrollSpeed(payload)
    /\ lastOp' = "SET_MAX_SCROLL_SPEED"
    /\ UNCHANGED <<baseFontSize, wordSpacing, brightness>>
    /\ ConfigDispatchFrame

\* dispatch({type: 'SET_WORD_SPACING', payload})
DispatchSetWordSpacing(payload) ==
    /\ wordSpacing' = SetWordSpacing(payload)
    /\ lastOp' = "SET_WORD_SPACING"
    /\ UNCHANGED <<baseFontSize, maxScrollSpeed, brightness>>
    /\ ConfigDispatchFrame

\* dispatch({type: 'LOAD_SAVED_STATE', payload: saved}): the saved keys
\* replace the state's, as they are.
DispatchLoadSavedState(saved) ==
    /\ baseFontSize' = Spread(baseFontSize, saved.baseFontSize)
    /\ maxScrollSpeed' = Spread(maxScrollSpeed, saved.maxScrollSpeed)
    /\ wordSpacing' = Spread(wordSpacing, saved.wordSpacing)
    /\ brightness' = Spread(brightness, saved.brightness)
    /\ lastOp' = "LOAD_SAVED_STATE"
    /\ ConfigDispatchFrame

\* Global font-size deltas a pinch proposes (quarter pixels), and how far
\* their sum and the font size go either way from the default.
FontDeltas == {-Px(1), Px(1)}
MaxFontSum == Px(2)
MaxProposed == 2

\* onAdjustFontSize(delta): the new size is the store's size plus the delta
\* and becomes the live value; the render that follows hands it to
\* useDebounce, whose effect restarts the timer when the value is new.
OnAdjustFontSize(delta) ==
    LET newSize == JsAdd(baseFontSize, Num(delta))
    IN /\ Abs(proposedSum + delta) <= MaxFontSum
       /\ newSize.kind = "number" => Abs(newSize.n - DEFAULT_BASE_FONT_SIZE) <= MaxFontSum
       /\ liveBaseFontSize' = newSize
       /\ inputValue' = newSize
       /\ IF newSize # inputValue
          THEN /\ timer' = SetValueTimer
               /\ stableFor' = 0
               /\ superseded' = IF timer = NoTimer THEN 0
                                ELSE Min(superseded + 1, MaxSuperseded)
          ELSE UNCHANGED <<timer, stableFor, superseded>>
       /\ proposedSum' = proposedSum + delta
       /\ proposedCount' = Min(proposedCount + 1, MaxProposed)
       /\ calls' = {<<"onAdjustFontSize", delta>>}
       /\ lastOp' = "adjustFontSize"
       /\ offsetBefore' = scrollX
       /\ speedBefore' = speed
       /\ UNCHANGED <<debouncedValue, debouncedBefore, helperVars, renderVars, configVars>>
       /\ UNCHANGED <<readerVars, centerVars, appSelectedWordIndex, perWordFontSizeOverrides,
                      selectedBefore, pinchActive, pinchSum, pinchMixed, pinchSteps,
                      layoutsChanged>>
       /\ UNCHANGED <<tickerVars, controllerVars, historyVars>>

\* The timer of useDebounce(liveBaseFontSize) fires: setDebouncedValue(value),
\* and when that is a new value the effect on it dispatches
\* SET_BASE_FONT_SIZE with it.
DebouncedBaseFontSizeFires ==
    /\ timer = 0
    /\ debouncedValue' = inputValue
    /\ timer' = NoTimer
    /\ debouncedBefore' = debouncedValue
    /\ baseFontSize' = IF inputValue # debouncedValue
                       THEN SetBaseFontSize(inputValue)
                       ELSE baseFontSize
    /\ proposedCount' = 0
    /\ calls' = IF inputValue # debouncedValue
                THEN {<<"SET_BASE_FONT_SIZE", inputValue>>}
                ELSE {}
    /\ lastOp' = "baseFontSizeFires"
    /\ offsetBefore' = scrollX
    /\ speedBefore' = speed
    /\ UNCHANGED <<inputValue, stableFor, superseded, helperVars, renderVars, proposedSum>>
    /\ UNCHANGED <<maxScrollSpeed, wordSpacing, brightness>>
    /\ UNCHANGED <<readerVars, centerVars, storeVars, selectedBefore, pinchActive, pinchSum,
                   pinchMixed, pinchSteps, layoutsChanged>>
    /\ UNCHANGED <<tickerVars, controllerVars, historyVars>>

\* dispatch({type: 'RESET_WORD_FONT_SIZE', payload: index}): what the store
\* and the observation variables become; nothing else is written.
DispatchResetWordFontSize(index) ==
    /\ perWordFontSizeOverrides' = ResetWordFontSize(perWordFontSizeOverrides, index)
    /\ calls' = {<<"RESET_WORD_FONT_SIZE", index>>}
    /\ selectedBefore' = selectedWordIndex
    /\ lastOp' = "resetWordFontSize"
    /\ offsetBefore' = scrollX
    /\ speedBefore' = speed
    /\ UNCHANGED utilVars
    /\ UNCHANGED <<readerVars, centerVars, appSelectedWordIndex, liveBaseFontSize,
                   pinchActive, pinchSum, pinchMixed, pinchSteps, layoutsChanged>>
    /\ UNCHANGED <<tickerVars, controllerVars, historyVars>>

\* Signed deltas of ADJUST_WORD_FONT_SIZE (quarter pixels); the first is
\* larger than any override the model holds.
WordDeltas == {-(MaxOverride + Px(1)), -1, 1, Px(1)}

\* dispatch({type: 'ADJUST_WORD_FONT_SIZE', payload: {index, delta}})
DispatchAdjustWordFontSize(index, delta) ==
    /\ WordOverride(index) + delta <= MaxOverride
    /\ perWordFontSizeOverrides' = AdjustWordFontSize(perWordFontSizeOverrides, index, delta)
    /\ calls' = {<<"ADJUST_WORD_FONT_SIZE", index>>, <<"delta", delta>>}
    /\ selectedBefore' = selectedWordIndex
    /\ lastOp' = "adjustWordFontSize"
    /\ offsetBefore' = scrollX
    /\ speedBefore' = speed
    /\ UNCHANGED utilVars
    /\ UNCHANGED <<readerVars, centerVars, appSelectedWordIndex, liveBaseFontSize,
                   pinchActive, pinchSum, pinchMixed, pinchSteps, layoutsChanged>>
    /\ UNCHANGED <<tickerVars, controllerVars, historyVars>>

\* dispatch({type: 'RESET_ALL_WORD_FONT_SIZES'})
DispatchResetAllWordFontSizes ==
    /\ perWordFontSizeOverrides' = EmptyMap
    /\ calls' = {<<"RESET_ALL_WORD_FONT_SIZES", NoWord>>}
    /\ selectedBefore' = selectedWordIndex
    /\ lastOp' = "resetAllWordFontSizes"
    /\ offsetBefore' = scrollX
    /\ speedBefore' = speed
    /\ UNCHANGED utilVars
    /\ UNCHANGED <<readerVars, centerVars, appSelectedWordIndex, liveBaseFontSize,
                   pinchActive, pinchSum, pinchMixed, pinchSteps, layoutsChanged>>
    /\ UNCHANGED <<tickerVars, controllerVars, historyVars>>

\* onResetWordScaleByIndex(index): the reset of any index, whether or not it
\* has an override and whether or not the text has a word there.
ResetWordScaleByIndex(index) == DispatchResetWordFontSize(index)

\* onResetSelectedWordScale(): the reset of the selected word, when there is
\* one.
ResetSelectedWordScale ==
    /\ appSelectedWordIndex # NoWord
    /\ DispatchResetWordFontSize(appSelectedWordIndex)

----------------------------------------------------------------------------
(* Reader: selection and taps *)

\* Whether a tap on word index at the current time is the second tap of a
\* double tap.
IsDoubleTap(index) ==
    /\ index \in DOMAIN lastTapTs
    /\ now - lastTapTs[index] < DOUBLE_TAP_THRESHOLD_MS

\* Mutant of SelectWordWrites: the selection is kept by the Reader alone.
SelectWordWritesUnreported(index) ==
    /\ selectedWordIndex' = index
    /\ appSelectedWordIndex' = appSelectedWordIndex
    /\ calls' = {}

\* Mutant of SelectWordWrites: a tap on the selected word deselects it.
SelectWordWritesToggle(index) ==
    LET target == IF selectedWordIndex = index THEN NoWord ELSE index
    IN /\ selectedWordIndex' = target
       /\ appSelectedWordIndex' = target
       /\ calls' = {<<"onSelectWordIndex", target>>}

\* The word's onPress: the selection, reported to the App, which stores it.
SelectWordWrites(index) ==
    /\ selectedWordIndex' = index
    /\ appSelectedWordIndex' = index
    /\ calls' = {<<"onSelectWordIndex", index>>}

\* A tap on word index: selectWord(index), or doubleTapWord(index) when it is
\* the second tap of a double tap.
WordTap(index) ==
    /\ IF IsDoubleTap(index)
       THEN /\ perWordFontSizeOverrides' = ResetWordFontSize(perWordFontSizeOverrides, index)
            /\ calls' = {<<"onResetWordScaleByIndex", index>>}
            /\ UNCHANGED <<selectedWordIndex, appSelectedWordIndex, speed, thumbPosition>>
       ELSE /\ SelectWordWrites(index)
            /\ ResetSpeedWrites
            /\ UNCHANGED perWordFontSizeOverrides
    /\ lastTapTs' = MapPut(lastTapTs, index, now)
    /\ selectedBefore' = selectedWordIndex
    /\ pinchMixed' = (pinchMixed \/ (pinchActive /\ selectedWordIndex' # selectedWordIndex))
    /\ lastOp' = "wordTap"
    /\ offsetBefore' = scrollX
    /\ speedBefore' = speed
    /\ UNCHANGED utilVars
    /\ UNCHANGED <<lastScale, now, centerVars, liveBaseFontSize, pinchActive, pinchSum,
                   pinchSteps, layoutsChanged>>
    /\ UNCHANGED <<maxSpeed, sliderWidth, sliderWidthSV, startX, dragActive>>
    /\ UNCHANGED <<tickerVars, historyVars>>

\* Mutant of Deselect: the tap on the background also stops the auto-scroll.
DeselectStopsScroll ==
    /\ selectedWordIndex' = NoWord
    /\ appSelectedWordIndex' = NoWord
    /\ calls' = {<<"onSelectWordIndex", NoWord>>}
    /\ ResetSpeedWrites
    /\ selectedBefore' = selectedWordIndex
    /\ pinchMixed' = (pinchMixed \/ (pinchActive /\ selectedWordIndex # NoWord))
    /\ lastOp' = "deselect"
    /\ offsetBefore' = scrollX
    /\ speedBefore' = speed
    /\ UNCHANGED utilVars
    /\ UNCHANGED <<lastScale, lastTapTs, now, centerVars, perWordFontSizeOverrides,
                   liveBaseFontSize, pinchActive, pinchSum, pinchSteps, layoutsChanged>>
    /\ UNCHANGED <<maxSpeed, sliderWidth, sliderWidthSV, startX, dragActive>>
    /\ UNCHANGED <<tickerVars, historyVars>>

\* deselect(): a tap on the background.
Deselect ==
    /\ selectedWordIndex' = NoWord
    /\ appSelectedWordIndex' = NoWord
    /\ calls' = {<<"onSelectWordIndex", NoWord>>}
    /\ selectedBefore' = selectedWordIndex
    /\ pinchMixed' = (pinchMixed \/ (pinchActive /\ selectedWordIndex # NoWord))
    /\ lastOp' = "deselect"
    /\ offsetBefore' = scrollX
    /\ speedBefore' = speed
    /\ UNCHANGED utilVars
    /\ UNCHANGED <<lastScale, lastTapTs, now, centerVars, perWordFontSizeOverrides,
                   liveBaseFontSize, pinchActive, pinchSum, pinchSteps, layoutsChanged>>
    /\ UNCHANGED <<tickerVars, controllerVars, historyVars>>

\* Time passes.
Elapse(ms) ==
    /\ now + ms <= MaxClock
    /\ now' = now + ms
    /\ lastOp' = "elapse"
    /\ offsetBefore' = scrollX
    /\ speedBefore' = speed
    /\ UNCHANGED utilVars
    /\ UNCHANGED <<selectedWordIndex, lastScale, lastTapTs, centerVars, storeVars,
                   wordHistoryVars>>
    /\ UNCHANGED <<tickerVars, controllerVars, historyVars>>

\* The text changes: the App renders the Reader with the new text, and the
\* ticker, keyed by the text, is mounted anew; the Reader and the App keep
\* their selection.
OnChangeText ==
    /\ mounted' = FALSE
    /\ contentWidth' = 0
    /\ isPanDisabled' = FALSE
    /\ scrollX' = 0
    /\ savedTranslateX' = 0
    /\ contentWidthSV' = 0
    /\ containerWidthSV' = 0
    /\ panActive' = FALSE
    /\ calls' = {}
    /\ selectedBefore' = selectedWordIndex
    /\ lastOp' = "changeText"
    /\ offsetBefore' = scrollX
    /\ speedBefore' = speed
    /\ UNCHANGED utilVars
    /\ UNCHANGED <<readerVars, centerVars, storeVars, pinchActive, pinchSum, pinchMixed,
                   pinchSteps, layoutsChanged>>
    /\ UNCHANGED <<containerWidth, controllerVars, historyVars>>

----------------------------------------------------------------------------
(* Reader: pinch *)

\* Mutant of HandlePinchStart: the session keeps the scale of the last one.
HandlePinchStartKeepsScale ==
    /\ ~pinchActive
    /\ pinchActive' = TRUE
    /\ lastScale' = lastScale
    /\ pinchSum' = 0
    /\ pinchMixed' = FALSE
    /\ pinchSteps' = 0
    /\ calls' = {}
    /\ selectedBefore' = selectedWordIndex
    /\ lastOp' = "pinchStart"
    /\ offsetBefore' = scrollX
    /\ speedBefore' = speed
    /\ UNCHANGED utilVars
    /\ UNCHANGED <<selectedWordIndex, lastTapTs, now, centerVars, storeVars, layoutsChanged>>
    /\ UNCHANGED <<tickerVars, controllerVars, historyVars>>

\* handlePinchStart
HandlePinchStart ==
    /\ ~pinchActive
    /\ pinchActive' = TRUE
    /\ lastScale' = ScaleOne
    /\ pinchSum' = 0
    /\ pinchMixed' = FALSE
    /\ pinchSteps' = 0
    /\ calls' = {}
    /\ selectedBefore' = selectedWordIndex
    /\ lastOp' = "pinchStart"
    /\ offsetBefore' = scrollX
    /\ speedBefore' = speed
    /\ UNCHANGED utilVars
    /\ UNCHANGED <<selectedWordIndex, lastTapTs, now, centerVars, storeVars, layoutsChanged>>
    /\ UNCHANGED <<tickerVars, controllerVars, historyVars>>

\* Mutant of PinchCallback: both targets get the sensitivity of the font size.
PinchCallbackOneSensitivity(delta, selected) ==
    IF selected # NoWord
    THEN <<"onAdjustSelectedWordScale", (delta * PINCH_SENSITIVITY_FONT_SIZE * Px(1)) \div ScaleOne>>
    ELSE <<"onAdjustFontSize", (delta * PINCH_SENSITIVITY_FONT_SIZE * Px(1)) \div ScaleOne>>

\* The callback of a pinch step of delta (twentieths of scale) and its
\* argument (quarter pixels).
PinchCallback(delta, selected) ==
    IF selected # NoWord
    THEN <<"onAdjustSelectedWordScale", (delta * PINCH_SENSITIVITY_WORD_SPACING * Px(1)) \div ScaleOne>>
    ELSE <<"onAdjustFontSize", (delta * PINCH_SENSITIVITY_FONT_SIZE * Px(1)) \div ScaleOne>>

\* handlePinchUpdate, with the App's handlers of the two callbacks.
HandlePinchUpdate(scale) ==
    /\ pinchActive
    /\ LET delta == scale - lastScale
           cb == PinchCallback(delta, selectedWordIndex)
       IN /\ lastScale' = scale
          /\ calls' = {cb}
          /\ IF cb[1] = "onAdjustSelectedWordScale"
             THEN /\ IF appSelectedWordIndex # NoWord
                     THEN /\ WordOverride(appSelectedWordIndex) + cb[2] <= MaxOverride
                          /\ perWordFontSizeOverrides' =
                                 AdjustWordFontSize(perWordFontSizeOverrides,
                                                    appSelectedWordIndex, cb[2])
                     ELSE UNCHANGED perWordFontSizeOverrides
                  /\ UNCHANGED liveBaseFontSize
             ELSE /\ liveBaseFontSize' = Num(ConfigBaseFontSize + cb[2])
                  /\ UNCHANGED perWordFontSizeOverrides
          /\ pinchSum' = IF pinchMixed THEN pinchSum ELSE pinchSum + cb[2]
          /\ pinchSteps' = Min(pinchSteps + 1, MaxPinchSteps)
    /\ selectedBefore' = selectedWordIndex
    /\ lastOp' = "pinchUpdate"
    /\ offsetBefore' = scrollX
    /\ speedBefore' = speed
    /\ UNCHANGED utilVars
    /\ UNCHANGED <<selectedWordIndex, lastTapTs, now, centerVars, appSelectedWordIndex,
                   pinchActive, pinchMixed, layoutsChanged>>
    /\ UNCHANGED <<tickerVars, controllerVars, historyVars>>

\* The pinch gesture ends.
PinchEnd ==
    /\ pinchActive
    /\ pinchActive' = FALSE
    /\ calls' = {}
    /\ selectedBefore' = selectedWordIndex
    /\ lastOp' = "pinchEnd"
    /\ offsetBefore' = scrollX
    /\ speedBefore' = speed
    /\ UNCHANGED utilVars
    /\ UNCHANGED <<readerVars, centerVars, storeVars, pinchSum, pinchMixed, pinchSteps,
                   layoutsChanged>>
    /\ UNCHANGED <<tickerVars, controllerVars, historyVars>>

----------------------------------------------------------------------------
(* Reader: centered word *)

\* A word rectangle in strip-local coordinates.
Rect(x, width) == [x |-> x, width |-> width]

\* Mutant of WordDistance: the left edge of the word stands for its center.
WordDistanceFromEdge(layout, offset, viewportCenter) ==
    Abs(layout.x + offset - viewportCenter)

\* |wordCenterInViewport - viewportCenter|
WordDistance(layout, offset, viewportCenter) ==
    Abs(layout.x + Half(layout.width) + offset - viewportCenter)

\* The index of the recorded layout nearest to the viewport center; of
\* several equally near, the first.  None when no layout is recorded.
NearestWord(layouts, offset, viewportCenter) ==
    IF DOMAIN layouts = {}
    THEN NoWord
    ELSE CHOOSE i \in DOMAIN layouts :
             \A j \in DOMAIN layouts :
                 LET di == WordDistance(layouts[i], offset, viewportCenter)
                     dj == WordDistance(layouts[j], offset, viewportCenter)
                 IN di < dj \/ (di = dj /\ i <= j)

\* recordWordLayout(index, x, width)
RecordWordLayout(index, layout) ==
    /\ MapGet(wordLayouts, index, Rect(0, 0)) # layout
    /\ wordLayouts' = MapPut(wordLayouts, index, layout)
    /\ layoutsChanged' = TRUE
    /\ lastOp' = "recordLayout"
    /\ offsetBefore' = scrollX
    /\ speedBefore' = speed
    /\ UNCHANGED utilVars
    /\ UNCHANGED <<readerVars, centeredWordIndex, observedOffset, storeVars, calls,
                   selectedBefore, pinchActive, pinchSum, pinchMixed, pinchSteps>>
    /\ UNCHANGED <<tickerVars, controllerVars, historyVars>>

\* recomputeCenteredWord(scrollOffset) with the current offset
RecomputeCenteredWord ==
    /\ centeredWordIndex' = NearestWord(wordLayouts, scrollX, Half(containerWidth))
    /\ observedOffset' = scrollX
    /\ layoutsChanged' = FALSE
    /\ lastOp' = "recompute"
    /\ offsetBefore' = scrollX
    /\ speedBefore' = speed
    /\ UNCHANGED utilVars
    /\ UNCHANGED <<readerVars, wordLayouts, storeVars, calls, selectedBefore, pinchActive,
                   pinchSum, pinchMixed, pinchSteps>>
    /\ UNCHANGED <<tickerVars, controllerVars, historyVars>>

\* Mutant of OffsetReaction: only the offsets a pan wrote are observed.
OffsetReactionToPanOnly ==
    /\ scrollX # observedOffset
    /\ lastOp = "panUpdate"
    /\ RecomputeCenteredWord

\* The subscription to ScrollOffset: it runs after a change of the offset and
\* recomputes the centered word for the offset it finds.
OffsetReaction ==
    /\ scrollX # observedOffset
    /\ RecomputeCenteredWord

----------------------------------------------------------------------------
(* Specifications *)

TickerNext ==
    \/ Mount
    \/ \E w \in ContainerWidths : OnContainerResize(w)
    \/ \E w \in ContentWidths : OnContentLayout(w)
    \/ Reset
    \/ FrameTick
    \/ PanStart
    \/ \E t \in PanTranslations : PanUpdate(t)
    \/ PanEnd

ControllerNext ==
    \/ \E w \in SliderWidths : HandleSliderLayout(w)
    \/ ResetSpeed
    \/ DragStart
    \/ \E t \in DragTranslations : DragUpdate(t)
    \/ DragEnd
    \/ DoubleTap
    \/ \E m \in MaxSpeeds : SetMaxSpeed(m)

\* The controller as it drives the ticker: one track width, full-left and
\* full-right drags from the center.
TickerSpeedNext ==
    \/ HandleSliderLayout(Px(2))
    \/ DragStart
    \/ \E t \in CoarseDragTranslations : DragUpdate(t)
    \/ DragEnd
    \/ DoubleTap

Next == TickerNext \/ TickerSpeedNext

Spec == Init /\ [][Next]_vars

SpecController == Init /\ [][ControllerNext]_vars

\* The thumb of the controller, dragged to an end of a laid-out track.
CoarseControllerNext ==
    \/ HandleSliderLayout(Px(2))
    \/ DragStart
    \/ \E t \in CoarseDragTranslations : DragUpdate(t)
    \/ DragEnd

\* Selection of the word field, with the controller whose velocity a selection
\* resets and a ticker that scrolls.  Taps are a double-tap window apart.
SelectionNext ==
    \/ \E i \in TappedWords : WordTap(i)
    \/ Deselect
    \/ Elapse(DOUBLE_TAP_THRESHOLD_MS)
    \/ CoarseControllerNext
    \/ Mount
    \/ OnContentLayout(Px(3))
    \/ FrameTick

\* Taps on the words at all the gaps.
TapsNext ==
    \/ \E i \in TappedWords : WordTap(i)
    \/ Deselect
    \/ \E ms \in TapGaps : Elapse(ms)

\* The store may hold overrides of an earlier pinch when the taps begin.
InitialOverrides == {EmptyMap, MapPut(EmptyMap, 0, Px(1)), MapPut(MapPut(EmptyMap, 0, Px(2)), 1, Px(1))}

InitWordField ==
    /\ selectedWordIndex = NoWord
    /\ lastScale = ScaleOne
    /\ lastTapTs = EmptyMap
    /\ now = 0
    /\ wordLayouts = EmptyMap
    /\ centeredWordIndex = NoWord
    /\ observedOffset = 0
    /\ appSelectedWordIndex = NoWord
    /\ perWordFontSizeOverrides \in InitialOverrides
    /\ liveBaseFontSize = Num(ConfigBaseFontSize)
    /\ calls = {}
    /\ selectedBefore = NoWord
    /\ pinchActive = FALSE
    /\ pinchSum = 0
    /\ pinchMixed = FALSE
    /\ pinchSteps = 0
    /\ layoutsChanged = FALSE
    /\ UtilInit
    /\ mounted = FALSE
    /\ containerWidth = Px(2)
    /\ contentWidth = 0
    /\ isPanDisabled = FALSE
    /\ scrollX = 0
    /\ savedTranslateX = 0
    /\ contentWidthSV = 0
    /\ containerWidthSV = 0
    /\ panActive = FALSE
    /\ speed = 0
    /\ maxSpeed = Px(1)
    /\ sliderWidth = 0
    /\ sliderWidthSV = 0
    /\ thumbPosition = 0
    /\ startX = 0
    /\ dragActive = FALSE
    /\ lastOp = "init"
    /\ offsetBefore = 0
    /\ speedBefore = 0
    /\ panStartOffset = 0
    /\ snapshotOverwritten = FALSE
    /\ ticksInPan = 0

SpecSelection == InitWordField /\ [][SelectionNext]_vars

SpecTaps == InitWordField /\ [][TapsNext]_vars

\* The first index past the text: no word, no layout and no override there.
StaleIndex == Cardinality(Words)

\* The indices a reset is dispatched with: every word, and indices left
\* over from another text.
ResetIndices == Words \cup {NoWord, StaleIndex}

\* Resets of the overrides, between the taps that select and reset words.
StoreNext ==
    \/ \E i \in ResetIndices : ResetWordScaleByIndex(i)
    \/ ResetSelectedWordScale
    \/ \E i \in TappedWords : WordTap(i)
    \/ Deselect

SpecStore == InitWordField /\ [][StoreNext]_vars

\* Pinch gestures of the word field, with the taps that change the selection.
PinchNext ==
    \/ HandlePinchStart
    \/ \E scale \in PinchScales : HandlePinchUpdate(scale)
    \/ PinchEnd
    \/ WordTap(0)
    \/ Deselect

SpecPinch == Init /\ [][PinchNext]_vars

\* One pinch gesture among taps on either of two words and on the background.
PinchWordsNext ==
    \/ HandlePinchStart
    \/ \E scale \in PinchScales : HandlePinchUpdate(scale)
    \/ \E i \in TappedWords : WordTap(i)
    \/ Deselect

SpecPinchWords == Init /\ [][PinchWordsNext]_vars

\* Taps on words and on the background, and changes of the text.
TextSelectionNext ==
    \/ Mount
    \/ \E i \in TappedWords : WordTap(i)
    \/ Deselect
    \/ OnChangeText
    \/ \E ms \in TapGaps : Elapse(ms)

SpecTextSelection == Init /\ [][TextSelectionNext]_vars

\* The layouts of the centered-word scenario: three words at x = 0, 60, 110
\* of widths 50, 40, 70.
ScenarioLayouts ==
    MapPut(MapPut(MapPut(EmptyMap, 0, Rect(Px(0), Px(50))), 1, Rect(Px(60), Px(40))),
           2, Rect(Px(110), Px(70)))
\* Two words of widths 1 and 2 that fill a strip of 3.
SmallLayouts == MapPut(MapPut(EmptyMap, 0, Rect(Px(0), Px(1))), 1, Rect(Px(1), Px(2)))
LayoutChoices == {EmptyMap, SmallLayouts, ScenarioLayouts}
\* Rectangles a reflow records.
ReflowRects == {Rect(Px(0), Px(2)), Rect(Px(2), Px(1))}
NearestOffsets == {Px(-80), Px(-30), Px(-1), Px(0), Px(1), Px(100)}

\* The word field with layouts recorded and the centered word computed for the
\* offset observed last; the ticker is mounted.
InitNearest ==
    /\ selectedWordIndex = NoWord
    /\ lastScale = ScaleOne
    /\ lastTapTs = EmptyMap
    /\ now = 0
    /\ wordLayouts \in LayoutChoices
    /\ containerWidth \in {Px(2), Px(200)}
    /\ observedOffset \in NearestOffsets
    /\ scrollX \in NearestOffsets
    /\ centeredWordIndex = NearestWord(wordLayouts, observedOffset, Half(containerWidth))
    /\ appSelectedWordIndex = NoWord
    /\ perWordFontSizeOverrides = EmptyMap
    /\ liveBaseFontSize = Num(ConfigBaseFontSize)
    /\ calls = {}
    /\ selectedBefore = NoWord
    /\ pinchActive = FALSE
    /\ pinchSum = 0
    /\ pinchMixed = FALSE
    /\ pinchSteps = 0
    /\ layoutsChanged = FALSE
    /\ UtilInit
    /\ mounted = TRUE
    /\ containerWidthSV = containerWidth
    /\ contentWidth = Px(180)
    /\ contentWidthSV = contentWidth
    /\ isPanDisabled = FALSE
    /\ savedTranslateX = scrollX
    /\ panActive = FALSE
    /\ speed = 0
    /\ maxSpeed = Px(1)
    /\ sliderWidth = 0
    /\ sliderWidthSV = 0
    /\ thumbPosition = 0
    /\ startX = 0
    /\ dragActive = FALSE
    /\ lastOp = "init"
    /\ offsetBefore = observedOffset
    /\ speedBefore = 0
    /\ panStartOffset = 0
    /\ snapshotOverwritten = FALSE
    /\ ticksInPan = 0

NearestNext ==
    \/ OffsetReaction
    \/ \E i \in Words, r \in ReflowRects : RecordWordLayout(i, r)

\* recomputeCenteredWord applied to layouts, offsets and viewport widths.
SpecNearest == InitNearest /\ [][NearestNext]_vars

\* The components before their first effect, in a window two pixels wide.
InitComponents ==
    /\ WordFieldInit
    /\ mounted = FALSE
    /\ containerWidth = Px(2)
    /\ contentWidth = 0
    /\ isPanDisabled = FALSE
    /\ scrollX = 0
    /\ savedTranslateX = 0
    /\ contentWidthSV = 0
    /\ containerWidthSV = 0
    /\ panActive = FALSE
    /\ speed = 0
    /\ maxSpeed = DEFAULT_MAX_SCROLL_SPEED
    /\ sliderWidth = 0
    /\ sliderWidthSV = 0
    /\ thumbPosition = 0
    /\ startX = 0
    /\ dragActive = FALSE
    /\ lastOp = "init"
    /\ offsetBefore = 0
    /\ speedBefore = 0
    /\ panStartOffset = 0
    /\ snapshotOverwritten = FALSE
    /\ ticksInPan = 0

InitClampScale ==
    /\ InitComponents
    /\ AppInit
    /\ DebounceInit
    /\ scaleArg \in ScaleInputs
    /\ clampResult = NoResult
    /\ currentScaleArg = Num(ScaleOne)
    /\ deltaArg = Num(0)
    /\ deltaResult = NoResult

\* clampScale applied to numbers and to invalid values.
SpecClampScale == InitClampScale /\ [][CallClampScale]_vars

InitSafeDelta ==
    /\ InitComponents
    /\ AppInit
    /\ DebounceInit
    /\ scaleArg = Num(ScaleOne)
    /\ clampResult = NoResult
    /\ currentScaleArg \in CurrentScales
    /\ deltaArg \in Deltas
    /\ deltaResult = NoResult

\* getSafeScaleDelta applied to scales within the bounds and to deltas.
SpecSafeDelta == InitSafeDelta /\ [][CallGetSafeScaleDelta]_vars

InitDebounce ==
    /\ InitComponents
    /\ AppInit
    /\ HelperInit
    /\ inputValue \in DebounceValues
    /\ debouncedValue = inputValue
    /\ timer = DEBOUNCE_DELAY_MS
    /\ stableFor = 0
    /\ debouncedBefore = debouncedValue
    /\ superseded = 0

DebounceNext ==
    \/ \E v \in DebounceValues : SetValue(v)
    \/ \E ms \in DebounceGaps : DebounceElapse(ms)
    \/ TimerFire

\* useDebounce under renders with new values; time passes and a due timer
\* runs its callback.
SpecDebounce ==
    /\ InitDebounce
    /\ [][DebounceNext]_vars
    /\ WF_vars(DebounceElapse(DEBOUNCE_DELAY_MS))
    /\ WF_vars(TimerFire)

\* The App after its first render: the live base font size is the store's,
\* and useDebounce holds it with its first timer pending.
InitFontSize ==
    /\ InitComponents
    /\ HelperInit
    /\ AppInit
    /\ inputValue = baseFontSize
    /\ debouncedValue = inputValue
    /\ timer = DEBOUNCE_DELAY_MS
    /\ stableFor = 0
    /\ debouncedBefore = debouncedValue
    /\ superseded = 0

\* Global pinch deltas, the time between them, and the debounce timer.
FontSizeNext ==
    \/ \E d \in FontDeltas : OnAdjustFontSize(d)
    \/ \E ms \in DebounceGaps : DebounceElapse(ms)
    \/ DebouncedBaseFontSizeFires

SpecFontSize == InitFontSize /\ [][FontSizeNext]_vars

\* The store as the reducer is given it: initialState.
InitConfig ==
    /\ InitComponents
    /\ UtilInit

\* The reducer under the three actions on the per-word overrides.
OverridesNext ==
    \/ \E i \in Words, d \in WordDeltas : DispatchAdjustWordFontSize(i, d)
    \/ \E i \in Words : ResetWordScaleByIndex(i)
    \/ DispatchResetAllWordFontSizes

SpecOverrides == InitConfig /\ [][OverridesNext]_vars

\* The reducer under its config actions, with any payload.
ConfigNext ==
    \/ \E payload \in SetPayloads : DispatchSetBaseFontSize(payload)
    \/ \E payload \in SetPayloads : DispatchSetMaxScrollSpeed(payload)
    \/ \E payload \in {Num(-Px(1)), Num(Px(8))} : DispatchSetWordSpacing(payload)
    \/ \E saved \in SavedStates : DispatchLoadSavedState(saved)

SpecConfig == InitConfig /\ [][ConfigNext]_vars

\* Window widths of the resizes: none, two and four pixels.
ResizeWidths == {Px(0), Px(2), Px(4)}

InitResize ==
    /\ WordFieldInit
    /\ UtilInit
    /\ mounted = FALSE
    /\ containerWidth \in ResizeWidths
    /\ contentWidth = 0
    /\ isPanDisabled = FALSE
    /\ scrollX = 0
    /\ savedTranslateX = 0
    /\ contentWidthSV = 0
    /\ containerWidthSV = 0
    /\ panActive = FALSE
    /\ speed = 0
    /\ maxSpeed = DEFAULT_MAX_SCROLL_SPEED
    /\ sliderWidth = 0
    /\ sliderWidthSV = 0
    /\ thumbPosition = 0
    /\ startX = 0
    /\ dragActive = FALSE
    /\ lastOp = "init"
    /\ offsetBefore = 0
    /\ speedBefore = 0
    /\ panStartOffset = 0
    /\ snapshotOverwritten = FALSE
    /\ ticksInPan = 0

ResizeNext ==
    \/ Mount
    \/ \E w \in ResizeWidths : OnContainerResize(w)
    \/ \E w \in ContentWidths : OnContentLayout(w)
    \/ Reset
    \/ PanStart
    \/ \E t \in PanTranslations : PanUpdate(t)
    \/ PanEnd

\* The ticker under pans, content layouts and resizes of the window.
SpecResize == InitResize /\ [][ResizeNext]_vars

InitOwnership ==
    /\ InitComponents
    /\ UtilInit

\* The handlers of the ticker, the pinch it forwards, and the controller:
\* the window is two or four pixels wide, the strip three.
OwnershipNext ==
    \/ Mount
    \/ \E w \in {Px(2), Px(4)} : OnContainerResize(w)
    \/ OnContentLayout(Px(3))
    \/ Reset
    \/ FrameTick
    \/ PanStart
    \/ PanUpdate(-Px(1))
    \/ PanEnd
    \/ HandlePinchStart
    \/ HandlePinchUpdate(ScaleOne + 1)
    \/ PinchEnd
    \/ \E w \in {Px(0), Px(2)} : HandleSliderLayout(w)
    \/ DragStart
    \/ DragUpdate(Px(1))
    \/ DragEnd
    \/ DoubleTap
    \/ ResetSpeed
    \/ HandleReset

\* Who writes the velocity.
SpecOwnership == InitOwnership /\ [][OwnershipNext]_vars

\* Every handler of the ticker, of the word field and of the controller: the
\* window has no width or is two pixels wide, the strip is one pixel long, and
\* the fingers of a pinch do not move apart.
WritersNext ==
    \/ Mount
    \/ \E w \in {Px(0), Px(2)} : OnContainerResize(w)
    \/ OnContentLayout(Px(1))
    \/ Reset
    \/ FrameTick
    \/ PanStart
    \/ PanUpdate(-Px(1))
    \/ PanEnd
    \/ HandlePinchStart
    \/ HandlePinchUpdate(ScaleOne)
    \/ PinchEnd
    \/ WordTap(0)
    \/ HandleSliderLayout(Px(2))
    \/ DragStart
    \/ DragUpdate(Px(1))
    \/ DragEnd
    \/ DoubleTap
    \/ ResetSpeed
    \/ HandleReset

\* Who writes the offset.
SpecWriters == InitOwnership /\ [][WritersNext]_vars

\* The two tiers apart: renders, effects and layout callbacks as separate
\* steps, with pan updates and frame ticks in between.
TiersNext ==
    \/ Mount
    \/ \E w \in {Px(2), Px(4)} : RenderWidth(w)
    \/ RunWidthEffect
    \/ \E w \in {Px(1), Px(3)} : LayoutEvent(w)
    \/ CommitLayout
    \/ FrameTick
    \/ PanStart
    \/ \E t \in {-Px(1), Px(1)} : PanUpdate(t)
    \/ PanEnd
    \/ HandleSliderLayout(Px(2))
    \/ DragStart
    \/ DragUpdate(Px(1))
    \/ DragEnd

SpecTiers == InitOwnership /\ [][TiersNext]_vars

\* A mounted ticker two words wide whose centered word is up to date, with
\* the velocity thumb held at rest or to the right of it.
InitCentered ==
    /\ selectedWordIndex = NoWord
    /\ lastScale = ScaleOne
    /\ lastTapTs = EmptyMap
    /\ now = 0
    /\ wordLayouts = SmallLayouts
    /\ containerWidth = Px(2)
    /\ contentWidth = Px(3)
    /\ scrollX \in MinTranslate(containerWidth, contentWidth)..MaxTranslate(containerWidth)
    /\ observedOffset = scrollX
    /\ centeredWordIndex = NearestWord(wordLayouts, observedOffset, Half(containerWidth))
    /\ appSelectedWordIndex = NoWord
    /\ perWordFontSizeOverrides = EmptyMap
    /\ liveBaseFontSize = Num(ConfigBaseFontSize)
    /\ calls = {}
    /\ selectedBefore = NoWord
    /\ pinchActive = FALSE
    /\ pinchSum = 0
    /\ pinchMixed = FALSE
    /\ pinchSteps = 0
    /\ layoutsChanged = FALSE
    /\ UtilInit
    /\ mounted = TRUE
    /\ containerWidthSV = containerWidth
    /\ contentWidthSV = contentWidth
    /\ isPanDisabled = FALSE
    /\ savedTranslateX = scrollX
    /\ panActive = FALSE
    /\ maxSpeed = Px(1)
    /\ sliderWidth = Px(2)
    /\ sliderWidthSV = sliderWidth
    /\ startX = Half(sliderWidth)
    /\ thumbPosition \in Half(sliderWidth)..sliderWidth
    /\ speed = DragSpeed(thumbPosition, sliderWidthSV, maxSpeed)
    /\ dragActive = TRUE
    /\ lastOp = "dragUpdate"
    /\ offsetBefore = scrollX
    /\ speedBefore = 0
    /\ panStartOffset = 0
    /\ snapshotOverwritten = FALSE
    /\ ticksInPan = 0

CenteredNext ==
    \/ PanStart
    \/ \E t \in PanTranslations : PanUpdate(t)
    \/ PanEnd
    \/ FrameTick
    \/ OffsetReaction

\* Pans and auto-scroll ticks write the offset; the subscription is run
\* whenever a change of the offset is waiting for it.
SpecCentered == InitCentered /\ [][CenteredNext]_vars /\ WF_vars(OffsetReaction)

\* Auto-scroll alone: the ticker is mounted with overflowing content, the thumb
\* is held at a position right of the center, and only frames happen.  The
\* frame callback runs on every frame, hence the weak fairness.
InitAutoScroll ==
    /\ WordFieldInit
    /\ UtilInit
    /\ mounted = TRUE
    /\ containerWidth \in ContainerWidths
    /\ containerWidthSV = containerWidth
    /\ contentWidth \in {w \in ContentWidths : w > containerWidth}
    /\ contentWidthSV = contentWidth
    /\ isPanDisabled = FALSE
    /\ scrollX \in MinTranslate(containerWidth, contentWidth)..MaxTranslate(containerWidth)
    /\ savedTranslateX = scrollX
    /\ panActive = FALSE
    /\ maxSpeed \in MaxSpeeds
    /\ sliderWidth = Px(2)
    /\ sliderWidthSV = sliderWidth
    /\ startX = Half(sliderWidth)
    /\ thumbPosition \in (Half(sliderWidth) + 1)..sliderWidth
    /\ speed = DragSpeed(thumbPosition, sliderWidthSV, maxSpeed)
    /\ dragActive = TRUE
    /\ lastOp = "dragUpdate"
    /\ offsetBefore = scrollX
    /\ speedBefore = 0
    /\ panStartOffset = 0
    /\ snapshotOverwritten = FALSE
    /\ ticksInPan = 0

SpecAutoScroll == InitAutoScroll /\ [][FrameTick]_vars /\ WF_vars(FrameTick)

----------------------------------------------------------------------------
(* Claims *)

MinOffset == MinTranslate(containerWidthSV, contentWidthSV)
MaxOffset == MaxTranslate(containerWidthSV)
OffsetInBounds(x) == MinOffset <= x /\ x <= MaxOffset
ContentOverflows == contentWidthSV > containerWidthSV

\* C1: in every reachable state of the ticker, ScrollOffset lies within
\* [containerWidth/2 - contentWidth, containerWidth/2].
C1_OffsetWithinBounds == OffsetInBounds(scrollX)

\* C2: when containerWidth >= contentWidth a frame tick leaves ScrollOffset
\* equal to its previous value, whatever the velocity.
C2_TickNoOpWhenContentFits ==
    (lastOp = "tick" /\ containerWidthSV >= contentWidthSV) => scrollX = offsetBefore

\* C3: when contentWidth > containerWidth and the velocity is non-zero, the
\* offset written by a frame tick lies within the bounds, for every prior
\* offset, also one outside the bounds.
C3_TickWritesWithinBounds ==
    (lastOp = "tick" /\ ContentOverflows /\ speed # 0) => OffsetInBounds(scrollX)

\* C3 witness: a tick with non-zero velocity has written an in-bounds offset
\* although the offset it found was out of bounds.
C3_Witness ==
    /\ lastOp = "tick"
    /\ ContentOverflows
    /\ speed # 0
    /\ ~OffsetInBounds(offsetBefore)
    /\ OffsetInBounds(scrollX)

\* C4: when contentWidth <= containerWidth, a pan update with any translation
\* leaves ScrollOffset unchanged.
C4_PanDisabledWhenTooNarrow ==
    (lastOp = "panUpdate" /\ contentWidthSV <= containerWidthSV) => scrollX = offsetBefore

\* C4 witness: a pan update has run on content that is laid out and fits, with
\* a snapshot that differs from the offset (so a translation would have moved it).
C4_Witness ==
    /\ lastOp = "panUpdate"
    /\ contentWidthSV > 0
    /\ contentWidthSV <= containerWidthSV
    /\ savedTranslateX # scrollX

\* C5 as claimed: with overflowing content every pan update sets ScrollOffset to
\* clamp(offset at the gesture's start + translation, min, max).
C5_PanUsesStartOffset ==
    [][(lastOp' = "panUpdate" /\ ContentOverflows)
          => \A t \in PanTranslations :
                 PanUpdate(t) => scrollX' = clamp(panStartOffset + t, MinOffset, MaxOffset)]_vars

\* C5 as amended: with overflowing content every pan update sets ScrollOffset to
\* clamp(savedTranslateX + translation, min, max), where savedTranslateX is the
\* offset captured at the gesture's start unless reset() or a re-centering
\* container resize has overwritten it with the center since.
C5_PanUsesSnapshot ==
    [][(lastOp' = "panUpdate" /\ ContentOverflows)
          => \A t \in PanTranslations :
                 PanUpdate(t) => scrollX' = clamp(savedTranslateX + t, MinOffset, MaxOffset)]_vars

\* C5 witness: a pan update has written the offset from a snapshot that was
\* overwritten during the gesture and differs from the offset at its start.
C5_Witness ==
    /\ lastOp = "panUpdate"
    /\ ContentOverflows
    /\ snapshotOverwritten
    /\ savedTranslateX # panStartOffset
    /\ scrollX # offsetBefore

\* C6: with overflowing content, the offset right after a pan update is
\* clamp(offset at the gesture's start + translation, min, max) whatever number
\* of frame ticks moved the offset since the gesture started (no reset or
\* re-centering in between): tick contributions never accumulate.
C6_PanOverridesTicks ==
    [][(lastOp' = "panUpdate" /\ ContentOverflows /\ ~snapshotOverwritten)
          => \A t \in PanTranslations :
                 PanUpdate(t) => scrollX' = clamp(panStartOffset + t, MinOffset, MaxOffset)]_vars

\* C6 witness: a pan update has overwritten an offset that frame ticks had moved
\* during the gesture, with the velocity still non-zero.
C6_Witness ==
    /\ lastOp = "panUpdate"
    /\ ContentOverflows
    /\ speed # 0
    /\ ticksInPan >= 1
    /\ ~snapshotOverwritten
    /\ scrollX # offsetBefore

\* C7 as claimed: while the pan gesture is active, a frame tick that follows a
\* pan update does not move ScrollOffset away from what that update wrote.
C7_TickKeepsPanOffset ==
    [][(lastOp = "panUpdate" /\ panActive /\ FrameTick) => scrollX' = scrollX]_vars

\* C7 as amended: while the pan gesture is active, a frame tick that follows a
\* pan update on overflowing content is not suppressed: it may move ScrollOffset,
\* by at most |velocity| and within the bounds, and it leaves the pan snapshot
\* alone, so that the next pan update overwrites the movement.
C7_TickMovesAtMostVelocity ==
    [][(lastOp = "panUpdate" /\ panActive /\ ContentOverflows /\ FrameTick)
          => /\ Abs(scrollX' - scrollX) <= Abs(speed)
             /\ OffsetInBounds(scrollX')
             /\ savedTranslateX' = savedTranslateX]_vars

\* C7 witness: during an active pan gesture a frame tick has moved the offset.
C7_Witness ==
    /\ lastOp = "tick"
    /\ panActive
    /\ ContentOverflows
    /\ ticksInPan >= 1
    /\ scrollX # offsetBefore

\* C8: with overflowing content, a constant velocity v > 0 and nothing but
\* frames, every tick lowers the offset by exactly v, or to minOffset when less
\* than v is left; the offset eventually equals minOffset and stays there.
C8_AutoScrollConverges ==
    /\ [][scrollX' = IF scrollX - speed >= MinOffset THEN scrollX - speed ELSE MinOffset]_vars
    /\ <>[](scrollX = MinOffset)

\* C8 witness: a tick has brought the offset down to minOffset with a last step
\* shorter than the velocity.
C8_Witness ==
    /\ lastOp = "tick"
    /\ speed > 0
    /\ scrollX = MinOffset
    /\ offsetBefore > MinOffset
    /\ offsetBefore - speed < MinOffset

\* C9: the velocity is within [-maxSpeed, +maxSpeed] in every reachable state
\* of the velocity controller.
C9_VelocityWithinMaxSpeed == -maxSpeed <= speed /\ speed <= maxSpeed

\* C10: a drag that ends with |velocity| < 0.5 leaves velocity 0 and the thumb
\* at the track center; a drag that ends with |velocity| >= 0.5 leaves velocity
\* and thumb position unchanged.
C10_SnapToZeroOnDragEnd ==
    [][DragEnd =>
          IF Abs(speed) < SnapThreshold
          THEN speed' = 0 /\ thumbPosition' = Half(sliderWidthSV)
          ELSE speed' = speed /\ thumbPosition' = thumbPosition]_vars

\* C10 witness: a drag has ended with a non-zero velocity below 0.5 px/frame
\* and has been snapped.
C10_Witness ==
    /\ lastOp = "dragEnd"
    /\ speedBefore # 0
    /\ Abs(speedBefore) < SnapThreshold
    /\ speed = 0
    /\ thumbPosition = Half(sliderWidthSV)
    /\ sliderWidthSV > 0

\* C11: a double tap on the controller, and the imperative resetSpeed(), leave
\* velocity 0 and the thumb at the track center, from every state, a drag in
\* progress included, whatever the velocity was.
C11_StopIsUnconditional ==
    (lastOp \in {"doubleTap", "resetSpeed"}) =>
        (speed = 0 /\ thumbPosition = Half(sliderWidthSV))

\* C11 witness: a double tap or resetSpeed() during a drag that had set a
\* non-zero velocity on a laid-out track has stopped it and centered the thumb.
C11_Witness ==
    /\ lastOp \in {"doubleTap", "resetSpeed"}
    /\ dragActive
    /\ speedBefore # 0
    /\ sliderWidthSV > 0
    /\ speed = 0
    /\ thumbPosition = Half(sliderWidthSV)

C14_DeselectKeepsScrolling ==
    (lastOp = "deselect") =>
        /\ selectedWordIndex = NoWord
        /\ calls = {<<"onSelectWordIndex", NoWord>>}
        /\ speed = speedBefore
        /\ scrollX = offsetBefore

\* C14 witness: a word was deselected while the auto-scroll was running and
\* had moved the offset away from the center; the velocity is still non-zero.
C14_Witness ==
    /\ lastOp = "deselect"
    /\ selectedBefore # NoWord
    /\ selectedWordIndex = NoWord
    /\ speed # 0
    /\ mounted
    /\ scrollX # Half(containerWidthSV)

C18_PinchDeltasTelescope ==
    /\ (lastOp = "pinchStart") => (lastScale = ScaleOne)
    /\ (pinchActive /\ ~pinchMixed) =>
           pinchSum = (IF selectedWordIndex # NoWord
                       THEN Px((lastScale - ScaleOne) * 20) \div ScaleOne
                       ELSE Px((lastScale - ScaleOne) * 10) \div ScaleOne)

\* C18 witness: a second pinch gesture, after at least two updates with a word
\* selected, has proposed a non-zero total.
C18_Witness ==
    /\ lastOp = "pinchUpdate"
    /\ pinchActive
    /\ ~pinchMixed
    /\ pinchSteps >= 2
    /\ selectedWordIndex # NoWord
    /\ lastScale # ScaleOne
    /\ pinchSum = Px((lastScale - ScaleOne) * 20) \div ScaleOne
    /\ WordOverride(selectedWordIndex) > pinchSum

\* Twice |layout.x + layout.width/2 + offset - viewportCenter| for a viewport
\* of the given width.
C19_TwiceDistance(layout, offset, width) ==
    Abs(2 * layout.x + layout.width + 2 * offset - width)

\* C19: after recomputeCenteredWord(scrollOffset), CenteredWordIndex is an
\* index that minimises |layout.x + layout.width/2 + scrollOffset -
\* viewportCenter| over all recorded word layouts (none when nothing is
\* recorded); layouts (0,50),(60,40),(110,70), viewport width 200 and offset
\* -30 give index 2.
C19_RecomputeMinimisesDistance ==
    lastOp = "recompute" =>
        /\ DOMAIN wordLayouts = {} => centeredWordIndex = NoWord
        /\ DOMAIN wordLayouts # {} =>
               /\ centeredWordIndex \in DOMAIN wordLayouts
               /\ \A j \in DOMAIN wordLayouts :
                      C19_TwiceDistance(wordLayouts[centeredWordIndex], scrollX, containerWidth)
                          <= C19_TwiceDistance(wordLayouts[j], scrollX, containerWidth)
        /\ (wordLayouts = ScenarioLayouts /\ containerWidth = Px(200) /\ scrollX = Px(-30))
               => centeredWordIndex = 2

\* C19 witness: the recomputation has run on the scenario's layouts at offset
\* -30 in a viewport 200 wide and has chosen index 2.
C19_Witness ==
    /\ lastOp = "recompute"
    /\ wordLayouts = ScenarioLayouts
    /\ containerWidth = Px(200)
    /\ scrollX = Px(-30)
    /\ centeredWordIndex = 2

C24_ClampTotality ==
    clampResult # NoResult =>
        /\ clampResult.kind = "number"
        /\ 2 <= clampResult.n /\ clampResult.n <= 100
        /\ scaleArg.kind = "number" =>
               clampResult.n = IF scaleArg.n < 2 THEN 2
                               ELSE IF scaleArg.n > 100 THEN 100
                               ELSE scaleArg.n
        /\ scaleArg.kind \in {"NaN", "undefined", "null"} => clampResult.n = 20

\* C24 witness: clampScale has returned the neutral scale for null.
C24_Witness ==
    /\ scaleArg = Null
    /\ clampResult = Num(20)

C26_DebouncePublishesSettled ==
    /\ [][debouncedValue' # debouncedValue =>
             /\ stableFor = 100
             /\ inputValue' = inputValue
             /\ debouncedValue' = inputValue]_vars
    /\ [][inputValue' # inputValue =>
             /\ timer' = 100
             /\ debouncedValue' = debouncedValue]_vars
    /\ ([]<>(lastOp = "setValue") \/ <>[](debouncedValue = inputValue))

\* C26 witness: two inputs were replaced while their timers were pending,
\* and the callback of the last timer has published the input that stayed.
C26_Witness ==
    /\ lastOp = "timerFire"
    /\ superseded = 2
    /\ stableFor = 100
    /\ debouncedValue = inputValue
    /\ debouncedValue # debouncedBefore

\* C22: onContainerResize(width), the first one at mount included.  If the
\* offset it finds is 0 or less than 1px from the previous center, the offset
\* and the pan snapshot become the new center width/2; otherwise both are left
\* as they were.
C22_ResizeRecentersRestingOffset ==
    [][lastOp' \in {"mount", "resize"} =>
          IF scrollX = 0 \/ Abs(scrollX - containerWidthSV \div 2) < 4
          THEN /\ scrollX' = containerWidth' \div 2
               /\ savedTranslateX' = containerWidth' \div 2
          ELSE /\ scrollX' = scrollX
               /\ savedTranslateX' = savedTranslateX]_vars

\* C22 witness: a resize found an offset exactly one pixel away from the
\* previous center, and not 0, and left it there, away from the new center.
C22_Witness ==
    /\ lastOp = "resize"
    /\ scrollX = offsetBefore
    /\ scrollX # 0
    /\ scrollX # Half(containerWidth)
    /\ \E w \in ResizeWidths : w # containerWidth /\ Abs(scrollX - Half(w)) = Px(1)

\* C23: a container resize never fights the user.  When a pan update has just
\* moved ScrollOffset to a value within bounds that differs from the center by
\* 1px or more, a container resize leaves ScrollOffset unchanged.
C23_ResizeKeepsPannedOffset ==
    [][(/\ lastOp = "panUpdate"
        /\ contentWidthSV > containerWidthSV
        /\ Abs(scrollX - containerWidthSV \div 2) >= 4
        /\ lastOp' = "resize") => scrollX' = scrollX]_vars

\* C30: in every state reached by content layouts and container resizes, with
\* the content laid out at a positive width, the "content too narrow to pan"
\* signal is true exactly when contentWidth <= containerWidth.
C30_PanDisabledMatchesGeometry ==
    (mounted /\ contentWidth > 0) => (isPanDisabled <=> contentWidth <= containerWidth)

\* C21: after the imperative reset(), ScrollOffset is containerWidth/2 and
\* the velocity is 0, from every prior state.
C21_ResetRecentersAndStops ==
    lastOp = "reset" => (scrollX = containerWidth \div 2 /\ speed = 0)

\* C21, amended: the ticker's reset() sets ScrollOffset and the pan snapshot
\* to containerWidth/2 and leaves the velocity and the thumb as they were; the
\* velocity is zeroed, and the thumb centered, by the controller's reset
\* button, which then reports through onReset and does not write the offset.
C21_ResetRecentersOnly ==
    /\ [][lastOp' = "reset" =>
             /\ scrollX' = containerWidth' \div 2
             /\ savedTranslateX' = containerWidth' \div 2
             /\ speed' = speed
             /\ thumbPosition' = thumbPosition]_vars
    /\ [][lastOp' = "handleReset" =>
             /\ speed' = 0
             /\ thumbPosition' = sliderWidthSV' \div 2
             /\ <<"onReset", NoWord>> \in calls'
             /\ scrollX' = scrollX]_vars

\* C21 witness: reset() has moved the offset to the center while the
\* auto-scroll was running, and it is still running.
C21_Witness ==
    /\ lastOp = "reset"
    /\ speed # 0
    /\ offsetBefore # scrollX
    /\ scrollX = Half(containerWidth)
    /\ savedTranslateX = scrollX

C29_ThreeWriters ==
    [][scrollX' # scrollX =>
          \/ lastOp' = "panUpdate"
          \/ lastOp' = "tick" /\ speed # 0
          \/ lastOp' = "reset"]_vars

\* C29, amended: ScrollOffset has four writers.  Its value changes only in a
\* pan update, in a frame tick with non-zero velocity, in reset(), or in the
\* container-width effect (at mount and on a container resize) when the effect
\* finds the offset at 0 or less than 1px from the previous center, and then
\* to the new center; content layout, pinch start, update and end, word
\* selection and every operation of the velocity controller leave it unchanged.
C29_FourWriters ==
    /\ [][scrollX' # scrollX =>
             \/ lastOp' = "panUpdate"
             \/ lastOp' = "tick" /\ speed # 0
             \/ lastOp' = "reset"
             \/ /\ lastOp' \in {"mount", "resize"}
                /\ scrollX = 0 \/ Abs(scrollX - containerWidthSV \div 2) < 4
                /\ scrollX' = containerWidth' \div 2]_vars
    /\ [][lastOp' \in {"layout", "panStart", "panEnd", "pinchStart", "pinchUpdate",
                       "pinchEnd", "wordTap", "sliderLayout", "dragStart", "dragUpdate",
                       "dragEnd", "doubleTap", "resetSpeed", "handleReset"}
             => scrollX' = scrollX]_vars

\* C29 witness: a container resize has written the offset, with a word
\* selected.
C29_Witness ==
    /\ lastOp = "resize"
    /\ scrollX # offsetBefore
    /\ scrollX = Half(containerWidth)
    /\ selectedWordIndex = 0


\* C27: stale indices are no-ops.  A reset of the override of an index that
\* has no entry in the override map (RESET_WORD_FONT_SIZE with any index:
\* a word without override, no word, an index past the text) leaves the
\* override map and every other part of the program's state unchanged.
C27_StaleResetIsNoOp ==
    [][\A i \in ResetIndices :
          (/\ lastOp' = "resetWordFontSize"
           /\ calls' = {<<"RESET_WORD_FONT_SIZE", i>>}
           /\ i \notin DOMAIN perWordFontSizeOverrides)
          => /\ perWordFontSizeOverrides' = perWordFontSizeOverrides
             /\ UNCHANGED <<readerVars, centerVars, appSelectedWordIndex, liveBaseFontSize>>
             /\ UNCHANGED <<tickerVars, controllerVars, utilVars>>]_vars

\* C27 witness: a reset with the index past the text has run against a
\* store that holds overrides of two words, and both are still there.
C27_Witness ==
    /\ lastOp = "resetWordFontSize"
    /\ calls = {<<"RESET_WORD_FONT_SIZE", StaleIndex>>}
    /\ DOMAIN perWordFontSizeOverrides = {0, 1}

\* C31: pan and physics use one consistent set of bounds.  In every state
\* of the mounted ticker, whatever renders, effects and layout callbacks are in flight, the range
\* [minOffset, maxOffset] a pan update would clamp against is the range a
\* frame tick would clamp against; so an offset a pan update writes lies in
\* the tick's range, and an offset a tick writes lies in the pan's range.
C31_OneSetOfBounds ==
    /\ [](mounted => PanRange = TickRange)
    /\ [][(lastOp' = "panUpdate" /\ scrollX' # scrollX)
             => (TickRange[1] <= scrollX' /\ scrollX' <= TickRange[2])]_vars
    /\ [][(lastOp' = "tick" /\ scrollX' # scrollX)
             => (PanRange[1] <= scrollX' /\ scrollX' <= PanRange[2])]_vars

\* C31 witness: a pan update has moved the offset while the render tier was
\* behind the shared tier on both widths.
C31_Witness ==
    /\ lastOp = "panUpdate"
    /\ scrollX # offsetBefore
    /\ containerWidth # containerWidthSV
    /\ contentWidth # contentWidthSV

\* C32: thumb and velocity stay consistent.  In every reachable state of the
\* velocity controller with a non-zero track width,
\* velocity = ((thumbPosition - trackCenter) / trackCenter) * maxSpeed.
C32_ThumbMatchesVelocity ==
    sliderWidthSV # 0 => speed = DragSpeed(thumbPosition, sliderWidthSV, maxSpeed)

\* C33: global pinch deltas are not lost in the store.  With no word
\* selected, once all debounce timers have fired, config.baseFontSize is the
\* starting base font size plus the sum of all deltas proposed (floored at
\* the minimum), also when several arrived within one debounce window.
C33_DeltasNotLost ==
    timer = NoTimer =>
        baseFontSize = Num(Max(MIN_BASE_FONT_SIZE, DEFAULT_BASE_FONT_SIZE + proposedSum))

\* C34: config.baseFontSize >= MIN_BASE_FONT_SIZE in every state reachable
\* through reducer actions, SET_BASE_FONT_SIZE with any payload and
\* LOAD_SAVED_STATE with any saved config included.
C34_BaseFontSizeAtLeastMin == JsLessEq(Num(MIN_BASE_FONT_SIZE), baseFontSize)

\* C38: after SET_MAX_SCROLL_SPEED with any payload, config.maxScrollSpeed is
\* within [1, 15] and every other field of the state is unchanged.
C38_MaxScrollSpeedClamped ==
    [][lastOp' = "SET_MAX_SCROLL_SPEED"
         => /\ JsLessEq(Num(ScrollSpeedFloor), maxScrollSpeed')
            /\ JsLessEq(maxScrollSpeed', Num(ScrollSpeedCeiling))
            /\ UNCHANGED <<baseFontSize, wordSpacing, brightness, appSelectedWordIndex,
                           perWordFontSizeOverrides>>]_vars

\* C35: per-word overrides never go negative.  After any sequence of
\* ADJUST_WORD_FONT_SIZE with signed deltas, RESET_WORD_FONT_SIZE and
\* RESET_ALL_WORD_FONT_SIZES every value in the override map is >= 0; a reset
\* removes the entry, so that the word is rendered at the base font size, and a
\* reset of all leaves no entry.
C35_OverridesNeverNegative ==
    /\ [](\A i \in DOMAIN perWordFontSizeOverrides : perWordFontSizeOverrides[i] >= 0)
    /\ [][\A i \in Words :
             (lastOp' = "resetWordFontSize" /\ calls' = {<<"RESET_WORD_FONT_SIZE", i>>})
             => /\ i \notin DOMAIN perWordFontSizeOverrides'
                /\ MapGet(perWordFontSizeOverrides', i, 0) = 0
                /\ \A j \in Words \ {i} :
                       MapGet(perWordFontSizeOverrides', j, NoWord)
                           = MapGet(perWordFontSizeOverrides, j, NoWord)]_vars
    /\ [][lastOp' = "resetAllWordFontSizes" => perWordFontSizeOverrides' = EmptyMap]_vars

\* C35 witness: a delta below minus the largest override was applied to a
\* word, whose override is 0 now, while another word keeps a positive one.
C35_Witness ==
    /\ lastOp = "adjustWordFontSize"
    /\ calls = {<<"ADJUST_WORD_FONT_SIZE", 0>>, <<"delta", -(MaxOverride + Px(1))>>}
    /\ 0 \in DOMAIN perWordFontSizeOverrides
    /\ perWordFontSizeOverrides[0] = 0
    /\ MapGet(perWordFontSizeOverrides, 1, 0) > 0

\* C36: a pinch update while word i is selected changes at most the font-size
\* override of word i: the entries of all other words, the base font size
\* (live and stored), the selection, the velocity and the scroll offset are as
\* before; a pinch update while no word is selected leaves the override map
\* as it was.
C36_PinchTouchesSelectedWordOnly ==
    [][lastOp' = "pinchUpdate" =>
          /\ selectedWordIndex # NoWord =>
                 /\ \A j \in Words \ {selectedWordIndex} :
                        /\ (j \in DOMAIN perWordFontSizeOverrides')
                               = (j \in DOMAIN perWordFontSizeOverrides)
                        /\ MapGet(perWordFontSizeOverrides', j, 0) = WordOverride(j)
                 /\ liveBaseFontSize' = liveBaseFontSize
                 /\ baseFontSize' = baseFontSize
                 /\ selectedWordIndex' = selectedWordIndex
                 /\ appSelectedWordIndex' = appSelectedWordIndex
                 /\ speed' = speed
                 /\ scrollX' = scrollX
          /\ selectedWordIndex = NoWord =>
                 perWordFontSizeOverrides' = perWordFontSizeOverrides]_vars

\* C36 witness: with word 1 selected, a pinch step has enlarged word 1 while
\* word 0 keeps the override an earlier pinch gave it.
C36_Witness ==
    /\ lastOp = "pinchUpdate"
    /\ selectedWordIndex = 1
    /\ calls = {<<"onAdjustSelectedWordScale", Px(1)>>}
    /\ WordOverride(1) > 0
    /\ WordOverride(0) > 0

\* C37: after any sequence of word taps, background taps and text changes the
\* selection held by the Reader equals the selection held by the App, so the
\* word an adjustment is applied to is the word shown as selected.
C37_SelectionCopiesAgree == selectedWordIndex = appSelectedWordIndex

\* C37 witness: the text has changed while word 1 was selected, and both
\* copies still name word 1.
C37_Witness ==
    /\ lastOp = "changeText"
    /\ selectedBefore = 1
    /\ selectedWordIndex = 1
    /\ appSelectedWordIndex = 1

====
